---- MODULE Spec2Model ----
(***************************************************************************)
(* DarkHorizon (dark-horizon/js/game.js with the entities of entities.js   *)
(* and the configuration of js/constants.js): the session state machine,   *)
(* the per-frame update and the collision resolution.                      *)
(*                                                                         *)
(* Numbers.  The program computes in JavaScript doubles.  The model keeps  *)
(* every length, position and speed in tenths of a logical pixel, so that  *)
(* the half pixels of the centring arithmetic and the speeds 1.2 and 0.2   *)
(* are exact; Px converts a whole number of pixels.  A Math.random() draw   *)
(* is a number of thousandths 0..999.  Wall-clock times are milliseconds.  *)
(***************************************************************************)
EXTENDS Integers, Sequences, FiniteSets, TLC

VARIABLES
    inner,           \* window.innerWidth / innerHeight (whole pixels)
    view,            \* this.view: logical viewport
    player,          \* this.player
    keys,            \* this.keys restricted to the movement codes: the held ones
    mousePos,        \* this.mousePos
    asteroidSpeed,   \* this.asteroidSpeed, set from isMobile() at construction
    asteroids, bullets, stars, explosions, particles,
    engineTrail,     \* this.engineTrail.particles
    score, highScore,
    storage,         \* localStorage: the item 'darkHorizonHighScore' (None when
                     \* absent), and whether getItem / setItem throw
    gameRunning, paused,
    lastShot,        \* this.lastShot
    time,            \* this.time: frames run
    now,             \* Date.now()
    rafQueue,        \* callbacks requested for the next animation frame
    frameQueue,      \* callbacks of the animation frame in progress, not yet run
    resizeScheduled, \* this._resizeScheduled
    gameInfoHidden, gameOverHidden,
    last,            \* the operation that produced this state, with what it saw
    probe            \* the arguments and the answer of a function applied on its own

vars == <<inner, view, player, keys, mousePos, asteroidSpeed, asteroids, bullets, stars,
          explosions, particles, engineTrail, score, highScore, storage,
          gameRunning, paused, lastShot, time, now, rafQueue, frameQueue,
          resizeScheduled, gameInfoHidden, gameOverHidden, last, probe>>

\* an absent value is the empty sequence, a present one v is <<v>>
None == <<>>
Some(v) == <<v>>

(***************************************************************************)
(* Configuration: CONFIG of js/constants.js.                               *)
(***************************************************************************)
ASTEROID_MIN_SIZE == 25
ASTEROID_SIZE_VARIATION == 50
ASTEROID_SPAWN_Y == -40
ASTEROID_HORIZONTAL_MARGIN == 40
ASTEROID_SPEED_VARIATION == 2
BULLET_WIDTH == 4
BULLET_HEIGHT == 15
BULLET_SPAWN_OFFSET == -2
EXPLOSION_PARTICLE_COUNT == 15
EXPLOSION_PARTICLE_LIFE == 30
EXPLOSION_SIZE == 50
EXPLOSION_OFFSET == 25
EXPLOSION_LIFE == 15
SHOT_COOLDOWN == 200
STAR_SCORE == 20
ASTEROID_SCORE == 10
PLAYER_SPAWN_Y_OFFSET == 100
SIZES_PLAYER == 25
SPEEDS_PLAYER == 8
SPEEDS_BULLET == 8
\* 1.2 and 0.2 pixels per frame, in tenths of a pixel
SPEEDS_ASTEROID_DESKTOP == 12
SPEEDS_ASTEROID_MOBILE == 2
SPEEDS_STAR == 1
STAR_MIN_SIZE == 15
STAR_SIZE_VARIATION == 30
STAR_SPAWN_Y == -20
STAR_HORIZONTAL_MARGIN == 20
STAR_PARTICLE_BURST == 12
STAR_PARTICLE_LIFE == 20
\* EngineTrail.add: life: 20
TRAIL_LIFE == 20

(***************************************************************************)
(* Bounds of the model.                                                    *)
(***************************************************************************)
\* frames run (this.time) in one behaviour
MaxTime == 3
\* movement keys held at once
MaxHeld == 2
\* advances of the wall clock
MaxClockSteps == 2
\* gameLoop callbacks requested at once (each startGame() requests one)
MaxLoops == 2
\* live asteroids / stars beyond which the model draws no further spawn
MaxAsteroids == 2
MaxStars == 1
\* live bullets beyond which the model sends no further shot
MaxBullets == 2
\* rectangles given to checkCollision: corner coordinates 0..MaxCoord, sides 1..MaxSide
MaxCoord == 3
MaxSide == 2

(***************************************************************************)
(* Arithmetic helpers.                                                     *)
(***************************************************************************)
Px(n) == 10 * n
Max(a, b) == IF a >= b THEN a ELSE b
Min(a, b) == IF a <= b THEN a ELSE b
\* n * 0.1 and n / 2, rounded toward zero (the resolution of the model)
Tenth(n) == IF n >= 0 THEN n \div 10 ELSE -((-n) \div 10)
Half(n) == IF n >= 0 THEN n \div 2 ELSE -((-n) \div 2)
\* r * n for a draw r of Math.random(), r in thousandths
Frac(r, n) == IF r * n >= 0 THEN (r * n) \div 1000 ELSE -((-(r * n)) \div 1000)
\* Array.prototype.splice(i, 1), 1-based
Splice(seq, i) == SubSeq(seq, 1, i - 1) \o SubSeq(seq, i + 1, Len(seq))

\* The element of a one-element set.  The({F(x) : x \in {e}}) is F applied to
\* the value of e: the way the model writes "compute e, then go on with it",
\* one statement after the other.
The(S) == CHOOSE r \in S : TRUE

\* A faulty clamp, for comparison: the lower limit is forgotten.
clampUpperOnly(n, min, max) == Min(max, n)

\* entities.js: const clamp = (n, min, max) => Math.max(min, Math.min(max, n))
clamp(n, min, max) == Max(min, Min(max, n))

(***************************************************************************)
(* localStorage.  An item is a string, here a sequence of characters;      *)
(* setItem(key, n) stores String(n), and the constructor reads             *)
(* Number(getItem(key)) || 0.  A store is [item, getThrows, setThrows].    *)
(***************************************************************************)
Digits == <<"0", "1", "2", "3", "4", "5", "6", "7", "8", "9">>
DigitValue(c) == CHOOSE d \in 0..9 : Digits[d + 1] = c
IsDigits(str) == \A i \in 1..Len(str) : \E d \in 0..9 : Digits[d + 1] = str[i]

\* String(n) for an integer n
RECURSIVE StringOf(_)
StringOf(n) ==
    IF n < 0 THEN <<"-">> \o StringOf(-n)
    ELSE IF n < 10 THEN <<Digits[n + 1]>>
    ELSE StringOf(n \div 10) \o <<Digits[(n % 10) + 1]>>

\* the value of a string of decimal digits
RECURSIVE DecimalValue(_)
DecimalValue(str) ==
    IF str = <<>> THEN 0
    ELSE 10 * DecimalValue(SubSeq(str, 1, Len(str) - 1)) + DigitValue(str[Len(str)])

\* Number(v) for v null (None) or a string: Some(n), or None for NaN.
\* Number(null) and Number("") are 0; a string that is not a decimal integer
\* with an optional sign is NaN here.
ToNumber(v) ==
    IF v = None THEN Some(0)
    ELSE LET str == v[1]
         IN  IF str = <<>> THEN Some(0)
             ELSE IF IsDigits(str) THEN Some(DecimalValue(str))
             ELSE IF str[1] = "-" /\ Len(str) > 1 /\ IsDigits(Tail(str))
             THEN Some(0 - DecimalValue(Tail(str)))
             ELSE None

\* n || 0 for a number n: 0 when n is NaN or 0
OrZero(n) == IF n = None THEN 0 ELSE n[1]

\* a store that does not throw, holding item
WorkingStore(item) == [item |-> item, getThrows |-> FALSE, setThrows |-> FALSE]

\* this.movementKeys of the constructor
MovementKeys == {"ArrowLeft", "ArrowRight", "ArrowUp", "ArrowDown",
                 "KeyA", "KeyD", "KeyW", "KeyS"}

(***************************************************************************)
(* Entities (entities.js).  An asteroid, a star, a bullet and the player   *)
(* are records [x, y, width, height, speed]; an explosion is               *)
(* [x, y, width, height, life, maxLife]; a particle is                     *)
(* [x, y, vx, vy, life, maxLife]; an engine-trail particle is [x, y, life].*)
(* Sizes and colours that only the drawing reads are left out.             *)
(***************************************************************************)
Entity(x, y, width, height, speed) ==
    [x |-> x, y |-> y, width |-> width, height |-> height, speed |-> speed]

\* Asteroid.update / Star.update: this.y += this.speed
AsteroidUpdate(a) == [a EXCEPT !.y = @ + a.speed]
StarUpdate(s) == [s EXCEPT !.y = @ + s.speed]
\* Bullet.update: this.y -= this.speed
BulletUpdate(b) == [b EXCEPT !.y = @ - b.speed]
\* Explosion.update: this.life--
ExplosionUpdate(e) == [e EXCEPT !.life = @ - 1]
\* Particle.update: x += vx; y += vy; life--; vy += 0.1
ParticleUpdate(p) ==
    [p EXCEPT !.x = @ + p.vx, !.y = @ + p.vy, !.life = @ - 1, !.vy = @ + 1]

\* EngineTrail.add(player); r is the draw of the horizontal jitter
EngineTrailAdd(trail, pl, r) ==
    LET centerX == pl.x + Half(pl.width)
        trailY == pl.y + pl.height
    IN  Append(trail, [x |-> centerX + Frac(r - 500, Px(4)), y |-> trailY,
                       life |-> TRAIL_LIFE])

\* A faulty EngineTrail.update, for comparison: a particle is removed one tick
\* late, when its life has fallen below 0.
EngineTrailStepLate(trail, i) ==
    LET particle == [trail[i] EXCEPT !.y = @ + Px(2), !.life = @ - 1]
        moved == [trail EXCEPT ![i] = particle]
    IN  IF particle.life < 0 THEN Splice(moved, i) ELSE moved

\* EngineTrail.update: the body of the scan at index i, and the scan
EngineTrailStep(trail, i) ==
    LET particle == [trail[i] EXCEPT !.y = @ + Px(2), !.life = @ - 1]
        moved == [trail EXCEPT ![i] = particle]
    IN  IF particle.life <= 0 THEN Splice(moved, i) ELSE moved
RECURSIVE EngineTrailScan(_, _)
EngineTrailScan(trail, i) ==
    IF i < 1 THEN trail
    ELSE The({EngineTrailScan(t, i - 1) : t \in {EngineTrailStep(trail, i)}})
EngineTrailUpdate(trail) == EngineTrailScan(trail, Len(trail))

\* A faulty Player.update, for comparison: the pointer pulls the player even
\* while a movement key is held.
PlayerUpdatePointerToo(pl, input, mouse, v) ==
    LET left == "ArrowLeft" \in input \/ "KeyA" \in input
        right == "ArrowRight" \in input \/ "KeyD" \in input
        up == "ArrowUp" \in input \/ "KeyW" \in input
        down == "ArrowDown" \in input \/ "KeyS" \in input
        kx == pl.x - (IF left THEN pl.speed ELSE 0) + (IF right THEN pl.speed ELSE 0)
        ky == pl.y - (IF up THEN pl.speed ELSE 0) + (IF down THEN pl.speed ELSE 0)
        targetX == mouse.x - Half(pl.width)
        targetY == mouse.y - Half(pl.height)
        nx == IF mouse.x > 0 /\ mouse.y > 0 THEN kx + Tenth(targetX - kx) ELSE kx
        ny == IF mouse.x > 0 /\ mouse.y > 0 THEN ky + Tenth(targetY - ky) ELSE ky
    IN  [pl EXCEPT !.x = clamp(nx, 0, v.width - pl.width),
                   !.y = clamp(ny, 0, v.height - pl.height)]

\* Player.update(input, mousePos, view)
PlayerUpdate(pl, input, mouse, v) ==
    LET left == "ArrowLeft" \in input \/ "KeyA" \in input
        right == "ArrowRight" \in input \/ "KeyD" \in input
        up == "ArrowUp" \in input \/ "KeyW" \in input
        down == "ArrowDown" \in input \/ "KeyS" \in input
        keyboardPressed == left \/ right \/ up \/ down
        kx == pl.x - (IF left THEN pl.speed ELSE 0) + (IF right THEN pl.speed ELSE 0)
        ky == pl.y - (IF up THEN pl.speed ELSE 0) + (IF down THEN pl.speed ELSE 0)
        targetX == mouse.x - Half(pl.width)
        targetY == mouse.y - Half(pl.height)
        nx == IF keyboardPressed THEN kx
              ELSE IF mouse.x > 0 /\ mouse.y > 0 THEN pl.x + Tenth(targetX - pl.x)
              ELSE pl.x
        ny == IF keyboardPressed THEN ky
              ELSE IF mouse.x > 0 /\ mouse.y > 0 THEN pl.y + Tenth(targetY - pl.y)
              ELSE pl.y
    IN  [pl EXCEPT !.x = clamp(nx, 0, v.width - pl.width),
                   !.y = clamp(ny, 0, v.height - pl.height)]

(***************************************************************************)
(* DarkHorizon (js/game.js).  The operators below take and return the      *)
(* object's fields as one record g.  The random draws of one frame are a   *)
(* record d: d.asteroid and d.star are None (no spawn this frame) or the    *)
(* four draws [w, h, s, x] of the factory; d.fx is the draw used by the    *)
(* frame's effects (trail jitter, particle velocities).                    *)
(***************************************************************************)

\* A faulty checkCollision, for comparison: rectangles that touch count as hit.
checkCollisionTouching(rect1, rect2) ==
    /\ rect1.x <= rect2.x + rect2.width
    /\ rect1.x + rect1.width >= rect2.x
    /\ rect1.y <= rect2.y + rect2.height
    /\ rect1.y + rect1.height >= rect2.y

\* checkCollision(rect1, rect2)
checkCollision(rect1, rect2) ==
    /\ rect1.x < rect2.x + rect2.width
    /\ rect1.x + rect1.width > rect2.x
    /\ rect1.y < rect2.y + rect2.height
    /\ rect1.y + rect1.height > rect2.y

\* A faulty createAsteroid, for comparison: maxX without Math.max(minX, ...).
createAsteroidNoFloor(g, r) ==
    LET width == Px(ASTEROID_MIN_SIZE) + Frac(r.w, Px(ASTEROID_SIZE_VARIATION))
        height == Px(ASTEROID_MIN_SIZE) + Frac(r.h, Px(ASTEROID_SIZE_VARIATION))
        speed == g.asteroidSpeed + Frac(r.s, Px(ASTEROID_SPEED_VARIATION))
        minX == Half(Px(ASTEROID_HORIZONTAL_MARGIN))
        maxX == g.view.width - width - Half(Px(ASTEROID_HORIZONTAL_MARGIN))
        x == minX + Frac(r.x, maxX - minX)
    IN  Entity(x, Px(ASTEROID_SPAWN_Y), width, height, speed)

\* A faulty createStar, for comparison: the star spawns at the top edge.
createStarAtTop(g, r) ==
    LET width == Px(STAR_MIN_SIZE) + Frac(r.w, Px(STAR_SIZE_VARIATION))
        height == Px(STAR_MIN_SIZE) + Frac(r.h, Px(STAR_SIZE_VARIATION))
        speed == Px(SPEEDS_STAR) + Frac(r.s, Px(1))
        minX == Half(Px(STAR_HORIZONTAL_MARGIN))
        maxX == Max(minX, g.view.width - width - Half(Px(STAR_HORIZONTAL_MARGIN)))
        x == minX + Frac(r.x, maxX - minX)
    IN  Entity(x, 0, width, height, speed)

\* createAsteroid()
createAsteroid(g, r) ==
    LET width == Px(ASTEROID_MIN_SIZE) + Frac(r.w, Px(ASTEROID_SIZE_VARIATION))
        height == Px(ASTEROID_MIN_SIZE) + Frac(r.h, Px(ASTEROID_SIZE_VARIATION))
        speed == g.asteroidSpeed + Frac(r.s, Px(ASTEROID_SPEED_VARIATION))
        minX == Half(Px(ASTEROID_HORIZONTAL_MARGIN))
        maxX == Max(minX, g.view.width - width - Half(Px(ASTEROID_HORIZONTAL_MARGIN)))
        x == minX + Frac(r.x, maxX - minX)
    IN  Entity(x, Px(ASTEROID_SPAWN_Y), width, height, speed)

\* createStar()
createStar(g, r) ==
    LET width == Px(STAR_MIN_SIZE) + Frac(r.w, Px(STAR_SIZE_VARIATION))
        height == Px(STAR_MIN_SIZE) + Frac(r.h, Px(STAR_SIZE_VARIATION))
        speed == Px(SPEEDS_STAR) + Frac(r.s, Px(1))
        minX == Half(Px(STAR_HORIZONTAL_MARGIN))
        maxX == Max(minX, g.view.width - width - Half(Px(STAR_HORIZONTAL_MARGIN)))
        x == minX + Frac(r.x, maxX - minX)
    IN  Entity(x, Px(STAR_SPAWN_Y), width, height, speed)

\* createBullet()
createBullet(g) ==
    LET bx == g.player.x + Half(g.player.width - Px(BULLET_WIDTH)) + Px(BULLET_SPAWN_OFFSET)
    IN  Entity(bx, g.player.y, Px(BULLET_WIDTH), Px(BULLET_HEIGHT), Px(SPEEDS_BULLET))

\* createExplosion(x, y): the particles, then the explosion
createExplosion(g, x, y, r) ==
    LET burst == [i \in 1..EXPLOSION_PARTICLE_COUNT |->
                    [x |-> x, y |-> y,
                     vx |-> Frac(r - 500, Px(8)), vy |-> Frac(r - 500, Px(8)),
                     life |-> EXPLOSION_PARTICLE_LIFE,
                     maxLife |-> EXPLOSION_PARTICLE_LIFE]]
        explosion == [x |-> x - Px(EXPLOSION_OFFSET), y |-> y - Px(EXPLOSION_OFFSET),
                      width |-> Px(EXPLOSION_SIZE), height |-> Px(EXPLOSION_SIZE),
                      life |-> EXPLOSION_LIFE, maxLife |-> EXPLOSION_LIFE]
    IN  [g EXCEPT !.particles = @ \o burst, !.explosions = Append(@, explosion)]

\* Math.cos / Math.sin of 2 * PI * p / 12 for p = 0..11, in thousandths
Cos12 == <<1000, 866, 500, 0, -500, -866, -1000, -866, -500, 0, 500, 866>>
Sin12 == <<0, 500, 866, 1000, 866, 500, 0, -500, -866, -1000, -866, -500>>

\* A faulty purge, for comparison: an asteroid at y = view.height is removed too.
updateAsteroidsStepInclusive(g, i) ==
    LET asteroid == AsteroidUpdate(g.asteroids[i])
        moved == [g EXCEPT !.asteroids[i] = asteroid]
    IN  IF asteroid.y >= g.view.height THEN [moved EXCEPT !.asteroids = Splice(@, i)]
        ELSE moved

\* updateAsteroids(): the body of the scan at index i, and the scan
updateAsteroidsStep(g, i) ==
    LET asteroid == AsteroidUpdate(g.asteroids[i])
        moved == [g EXCEPT !.asteroids[i] = asteroid]
    IN  IF asteroid.y > g.view.height THEN [moved EXCEPT !.asteroids = Splice(@, i)]
        ELSE moved
\* A faulty updateAsteroids, for comparison: the scan runs forwards, from the
\* first index to the last, and steps on after a splice.
RECURSIVE updateAsteroidsScanForward(_, _)
updateAsteroidsScanForward(g, i) ==
    IF i > Len(g.asteroids) THEN g
    ELSE The({updateAsteroidsScanForward(h, i + 1) : h \in {updateAsteroidsStep(g, i)}})
updateAsteroidsForward(g) == updateAsteroidsScanForward(g, 1)

RECURSIVE updateAsteroidsScan(_, _)
updateAsteroidsScan(g, i) ==
    IF i < 1 THEN g
    ELSE The({updateAsteroidsScan(h, i - 1) : h \in {updateAsteroidsStep(g, i)}})
updateAsteroids(g) == updateAsteroidsScan(g, Len(g.asteroids))

\* updateBullets()
updateBulletsStep(g, i) ==
    LET bullet == BulletUpdate(g.bullets[i])
        moved == [g EXCEPT !.bullets[i] = bullet]
    IN  IF bullet.y + bullet.height < 0 THEN [moved EXCEPT !.bullets = Splice(@, i)]
        ELSE moved
RECURSIVE updateBulletsScan(_, _)
updateBulletsScan(g, i) ==
    IF i < 1 THEN g
    ELSE The({updateBulletsScan(h, i - 1) : h \in {updateBulletsStep(g, i)}})
updateBullets(g) == updateBulletsScan(g, Len(g.bullets))

\* updateEngineTrail()
updateEngineTrail(g, d) ==
    LET added == IF g.gameRunning THEN EngineTrailAdd(g.engineTrail, g.player, d.fx)
                 ELSE g.engineTrail
    IN  [g EXCEPT !.engineTrail = EngineTrailUpdate(added)]

\* updateExplosions()
updateExplosionsStep(list, i) ==
    LET explosion == ExplosionUpdate(list[i])
        moved == [list EXCEPT ![i] = explosion]
    IN  IF explosion.life <= 0 THEN Splice(moved, i) ELSE moved
RECURSIVE updateExplosionsScan(_, _)
updateExplosionsScan(list, i) ==
    IF i < 1 THEN list
    ELSE The({updateExplosionsScan(l, i - 1) : l \in {updateExplosionsStep(list, i)}})
updateExplosions(g) == [g EXCEPT !.explosions = updateExplosionsScan(@, Len(@))]

\* A faulty updateParticles, for comparison: a particle is removed one tick
\* late, when its life has fallen below 0.
updateParticlesStepLate(list, i) ==
    LET particle == ParticleUpdate(list[i])
        moved == [list EXCEPT ![i] = particle]
    IN  IF particle.life < 0 THEN Splice(moved, i) ELSE moved

\* updateParticles()
updateParticlesStep(list, i) ==
    LET particle == ParticleUpdate(list[i])
        moved == [list EXCEPT ![i] = particle]
    IN  IF particle.life <= 0 THEN Splice(moved, i) ELSE moved
RECURSIVE updateParticlesScan(_, _)
updateParticlesScan(list, i) ==
    IF i < 1 THEN list
    ELSE The({updateParticlesScan(l, i - 1) : l \in {updateParticlesStep(list, i)}})
updateParticles(g) == [g EXCEPT !.particles = updateParticlesScan(@, Len(@))]

\* updateStars()
updateStarsStep(g, i) ==
    LET star == StarUpdate(g.stars[i])
        moved == [g EXCEPT !.stars[i] = star]
    IN  IF star.y > g.view.height THEN [moved EXCEPT !.stars = Splice(@, i)]
        ELSE moved
RECURSIVE updateStarsScan(_, _)
updateStarsScan(g, i) ==
    IF i < 1 THEN g
    ELSE The({updateStarsScan(h, i - 1) : h \in {updateStarsStep(g, i)}})
updateStars(g) == updateStarsScan(g, Len(g.stars))

\* spawnObjects(): a draw below the spawn rate is d.asteroid / d.star # None
spawnObjects(g, d) ==
    LET a == IF d.asteroid # None THEN [g EXCEPT !.asteroids = Append(@, createAsteroid(g, d.asteroid[1]))]
             ELSE g
    IN  IF d.star # None THEN [a EXCEPT !.stars = Append(@, createStar(a, d.star[1]))]
        ELSE a

\* A faulty updateHighScore, for comparison: the comparison is forgotten.
updateHighScoreAlways(g) ==
    [g EXCEPT !.highScore = g.score,
              !.storage.item = IF g.storage.setThrows THEN @ ELSE Some(StringOf(g.score))]

\* A faulty updateHighScore, for comparison: the item is written before the
\* field is assigned, outside any try, so that a setItem that throws leaves
\* the field as it was.
updateHighScoreWriteFirst(g) ==
    IF g.score > g.highScore /\ ~g.storage.setThrows
    THEN [g EXCEPT !.highScore = g.score, !.storage.item = Some(StringOf(g.score))]
    ELSE g

\* A faulty updateHighScore, for comparison: the item is written before the
\* field is assigned, from the field.
updateHighScoreStoresOld(g) ==
    IF g.score > g.highScore
    THEN [g EXCEPT !.highScore = g.score,
                   !.storage.item = IF g.storage.setThrows THEN @
                                    ELSE Some(StringOf(g.highScore))]
    ELSE g

\* updateHighScore(): a setItem that throws is caught and leaves the item as it was
updateHighScore(g) ==
    IF g.score > g.highScore
    THEN [g EXCEPT !.highScore = g.score,
                   !.storage.item = IF g.storage.setThrows THEN @
                                    ELSE Some(StringOf(g.score))]
    ELSE g

\* showGameOver()
showGameOver(g) == [g EXCEPT !.gameOverHidden = FALSE]

\* A faulty gameOver, for comparison: the score is cleared with the session.
gameOverClearsScore(g) ==
    showGameOver(updateHighScore([g EXCEPT !.gameRunning = FALSE, !.paused = FALSE,
                                           !.score = 0]))

\* gameOver()
gameOver(g) ==
    showGameOver(updateHighScore([g EXCEPT !.gameRunning = FALSE, !.paused = FALSE]))

\* checkCollisions(), bullets against asteroids: the inner scan for bullet
\* from index j, 0 when it reaches the front without a hit
RECURSIVE firstHit(_, _, _)
firstHit(bullet, list, j) ==
    IF j < 1 THEN 0
    ELSE IF checkCollision(bullet, list[j]) THEN j
    ELSE firstHit(bullet, list, j - 1)

\* the outer scan from index i
RECURSIVE bulletScan(_, _, _)
bulletScan(g, i, d) ==
    IF i < 1 THEN g
    ELSE LET bullet == g.bullets[i]
             j == firstHit(bullet, g.asteroids, Len(g.asteroids))
         IN  IF j = 0 THEN bulletScan(g, i - 1, d)
             ELSE LET asteroid == g.asteroids[j]
                      h == [g EXCEPT !.bullets = Splice(@, i),
                                     !.asteroids = Splice(@, j),
                                     !.score = @ + ASTEROID_SCORE]
                  IN  The({bulletScan(e, i - 1, d) :
                           e \in {createExplosion(h, asteroid.x + Half(asteroid.width),
                                                   asteroid.y + Half(asteroid.height),
                                                   d.fx)}})
\* A faulty bullet step, for comparison: the bullet that hit is not spliced out,
\* so it is left in bullets once the asteroid it hit is gone.
bulletStepKeepsBullets(g, d) ==
    [bulletScan(g, Len(g.bullets), d) EXCEPT !.bullets = g.bullets]

\* A faulty bullet step, for comparison: the scan stops before the first
\* bullet of the list (i > 0 for i >= 0).
bulletStepMissesFirst(g, d) ==
    IF g.bullets = <<>> THEN g
    ELSE LET first == Head(g.bullets)
         IN  The({[r EXCEPT !.bullets = <<first>> \o @] :
                  r \in {bulletScan([g EXCEPT !.bullets = Tail(@)],
                                    Len(g.bullets) - 1, d)}})

bulletStep(g, d) == bulletScan(g, Len(g.bullets), d)

\* player against asteroids: whether the scan reaches this.gameOver()
playerHit(g) == \E i \in 1..Len(g.asteroids) : checkCollision(g.player, g.asteroids[i])

\* the particles pushed for one collected star
starBurst(star, r) ==
    LET m == Frac(r, Px(3)) + Px(2)
    IN  [p \in 1..STAR_PARTICLE_BURST |->
            [x |-> star.x + Half(star.width), y |-> star.y + Half(star.height),
             vx |-> Frac(Cos12[p], m), vy |-> Frac(Sin12[p], m),
             life |-> STAR_PARTICLE_LIFE, maxLife |-> STAR_PARTICLE_LIFE]]

\* player against stars: the backward scan from index i
RECURSIVE starScan(_, _, _)
starScan(g, i, d) ==
    IF i < 1 THEN g
    ELSE LET star == g.stars[i]
         IN  IF checkCollision(g.player, star)
             THEN The({starScan(c, i - 1, d) :
                       c \in {[g EXCEPT !.particles = @ \o starBurst(star, d.fx),
                                        !.stars = Splice(@, i),
                                        !.score = @ + STAR_SCORE]}})
             ELSE starScan(g, i - 1, d)
\* A faulty star step, for comparison: the scan stops at the first star it
\* collects.
starStepFirstOnly(g, d) ==
    LET hit == {i \in 1..Len(g.stars) : checkCollision(g.player, g.stars[i])}
        i == CHOOSE k \in hit : \A m \in hit : m <= k
    IN  IF hit = {} THEN g
        ELSE [g EXCEPT !.particles = @ \o starBurst(g.stars[i], d.fx),
                       !.stars = Splice(@, i),
                       !.score = @ + STAR_SCORE]

\* A faulty star step, for comparison: a star is paid as an asteroid is.
starStepAsteroidScore(g, d) ==
    LET c == starScan(g, Len(g.stars), d)
    IN  [c EXCEPT !.score = g.score + ASTEROID_SCORE * (Len(g.stars) - Len(c.stars))]

starStep(g, d) == starScan(g, Len(g.stars), d)

\* A faulty checkCollisions, for comparison: the player is tested against the
\* asteroids before the bullets are.
checkCollisionsPlayerFirst(g, d) ==
    IF playerHit(g) THEN gameOver(g)
    ELSE The({starStep(b, d) : b \in {bulletStep(g, d)}})

\* A faulty checkCollisions, for comparison: no return after this.gameOver().
checkCollisionsNoReturn(g, d) ==
    The({IF playerHit(b) THEN starStep(gameOver(b), d) ELSE starStep(b, d) :
         b \in {bulletStep(g, d)}})

\* checkCollisions()
checkCollisions(g, d) ==
    The({IF playerHit(b) THEN gameOver(b) ELSE starStep(b, d) :
         b \in {bulletStep(g, d)}})

\* the part of update() that runs before checkCollisions()
beforeCollisions(g, d) ==
    The({spawnObjects(g6, d) :
         g6 \in {updateStars(g5) :
         g5 \in {updateParticles(g4) :
         g4 \in {updateExplosions(g3) :
         g3 \in {updateEngineTrail(g2, d) :
         g2 \in {updateBullets(g1) :
         g1 \in {updateAsteroids(g)}}}}}}})

\* update()
update(g, d) ==
    The({[c EXCEPT !.player = PlayerUpdate(@, c.keys, c.mousePos, c.view)] :
         c \in {checkCollisions(g7, d) :
         g7 \in {beforeCollisions(g, d)}}})

\* A faulty gameLoop, for comparison: the test of gameRunning is forgotten.
gameLoopUnguarded(g, d) ==
    The({[u EXCEPT !.raf = Append(@, "gameLoop")] :
         u \in {IF ~g.paused THEN update([g EXCEPT !.time = @ + 1], d)
                ELSE [g EXCEPT !.time = @ + 1]}})

\* A faulty gameLoop, for comparison: the next frame is requested before
\* gameRunning is tested.
gameLoopRequestsFirst(g, d) ==
    IF ~g.gameRunning THEN [g EXCEPT !.raf = Append(@, "gameLoop")]
    ELSE The({[u EXCEPT !.raf = Append(@, "gameLoop")] :
              u \in {IF ~g.paused THEN update([g EXCEPT !.time = @ + 1], d)
                     ELSE [g EXCEPT !.time = @ + 1]}})

\* A faulty gameLoop, for comparison: the test of paused is forgotten.
gameLoopIgnoresPause(g, d) ==
    IF ~g.gameRunning THEN g
    ELSE The({[u EXCEPT !.raf = Append(@, "gameLoop")] :
              u \in {update([g EXCEPT !.time = @ + 1], d)}})

\* gameLoop(): g.raf collects the callbacks it requests
gameLoop(g, d) ==
    IF ~g.gameRunning THEN g
    ELSE The({[u EXCEPT !.raf = Append(@, "gameLoop")] :
              u \in {IF ~g.paused THEN update([g EXCEPT !.time = @ + 1], d)
                     ELSE [g EXCEPT !.time = @ + 1]}})

\* A faulty resetGameState, for comparison: lastShot is left as it was.
resetGameStateKeepsShot(g) ==
    [g EXCEPT !.score = 0, !.asteroids = <<>>, !.bullets = <<>>, !.explosions = <<>>,
              !.particles = <<>>, !.stars = <<>>]

\* resetGameState()
resetGameState(g) ==
    [g EXCEPT !.score = 0, !.asteroids = <<>>, !.bullets = <<>>, !.explosions = <<>>,
              !.particles = <<>>, !.stars = <<>>, !.lastShot = 0]

\* hideGameInfo() / hideGameOver()
hideGameInfo(g) == [g EXCEPT !.gameInfoHidden = TRUE]
hideGameOver(g) == [g EXCEPT !.gameOverHidden = TRUE]

\* startGame()
startGame(g, d) ==
    gameLoop(hideGameInfo(resetGameState([g EXCEPT !.gameRunning = TRUE])), d)

\* A faulty togglePause, for comparison: it also clears the cooldown timer.
togglePauseResetsShot(g) == [g EXCEPT !.paused = ~@, !.lastShot = 0]

\* togglePause()
togglePause(g) == [g EXCEPT !.paused = ~@]

\* A faulty shoot, for comparison: a shot exactly one cooldown later is refused.
shootStrict(g, t) ==
    IF ~g.gameRunning \/ g.paused THEN g
    ELSE IF t - g.lastShot <= SHOT_COOLDOWN THEN g
    ELSE [g EXCEPT !.bullets = Append(@, createBullet(g)), !.lastShot = t]

\* A faulty shoot, for comparison: the test of paused is forgotten.
shootWhilePaused(g, t) ==
    IF ~g.gameRunning THEN g
    ELSE IF t - g.lastShot < SHOT_COOLDOWN THEN g
    ELSE [g EXCEPT !.bullets = Append(@, createBullet(g)), !.lastShot = t]

\* shoot() at wall-clock time t
shoot(g, t) ==
    IF ~g.gameRunning \/ g.paused THEN g
    ELSE IF t - g.lastShot < SHOT_COOLDOWN THEN g
    ELSE [g EXCEPT !.bullets = Append(@, createBullet(g)), !.lastShot = t]

\* resizeCanvas(); w, h are window.innerWidth / innerHeight
resizeCanvas(g, w, h) ==
    LET v == [width |-> Px(w), height |-> Px(h)]
    IN  [g EXCEPT !.view = v,
                  !.player.x = Half(v.width) - Half(g.player.width),
                  !.player.y = v.height - g.player.height - Px(PLAYER_SPAWN_Y_OFFSET)]

(***************************************************************************)
(* The inputs the model draws.                                             *)
(***************************************************************************)
\* window sizes (innerWidth, innerHeight), in pixels: one that puts the player
\* fifteen pixels below the top edge, within reach of what spawns; one that leaves the player five
\* pixels across and one pixel down to move in; and one smaller than the player
PlayWindow == <<100, 140>>
SnugWindow == <<30, 126>>
TinyWindow == <<20, 20>>
\* a window that holds the player four times over each way, less than
\* PLAYER_SPAWN_Y_OFFSET + SIZES_PLAYER pixels high
LowWindow == <<100, 100>>
\* pointer positions relative to the canvas: far beyond the window, and near
\* its top left corner
FarPointer == [x |-> Px(500), y |-> Px(500)]
NearPointer == [x |-> Px(3), y |-> Px(3)]
\* movement key codes pressed: the arrows, and one of the letter aliases
ArrowKeys == {"ArrowLeft", "ArrowRight", "ArrowUp", "ArrowDown"}
LetterKeys == {"KeyA"}
\* the four draws of createAsteroid / createStar: w, h, s, x
BigAsteroid == [w |-> 900, h |-> 900, s |-> 0, x |-> 0]
\* 70 by 45 pixels: it spawns clear of the player, in the column of the bullets
MidAsteroid == [w |-> 900, h |-> 400, s |-> 0, x |-> 0]
BigStar == [w |-> 999, h |-> 999, s |-> 0, x |-> 999]
\* 15 by 45 pixels, at x = 65.2 in the play window: it spawns level with the
\* player and 2.7 pixels to its right, within one move (8 pixels) of it
SideStar == [w |-> 0, h |-> 999, s |-> 0, x |-> 850]
\* a window 208 pixels wide and 125 high puts the player at (91.5, 0), so that
\* a bullet leaves it at (100, 0); the draws below make an asteroid 30 pixels
\* square with speed 2 at x = 100 in that window
ScenarioWindow == <<208, 125>>
ScenarioAsteroid == [w |-> 100, h |-> 100, s |-> 400, x |-> 580]
\* a window 164 pixels high: an asteroid of speed 1.2 and one of speed 1.3,
\* spawned at y = -40, and a star of speed 1, spawned at y = -20, all come to
\* within one move of its bottom edge
PurgeWindow == <<100, 164>>
\* the frames run when the behaviours of SpecPurge begin
PurgeTime == 200
\* the frames run when the behaviours of SpecArrive begin
ArriveTime == 25
\* the frames a session is followed for in SpecLife, beyond MaxTime: the
\* longest life of an effect (EXPLOSION_PARTICLE_LIFE)
LifeFrames == 30
\* the draws of a frame's effects
FxDraws == {250}
\* the wall clock starts well past one cooldown, as Date.now() does
ClockStart == 5 * SHOT_COOLDOWN

\* the draws of one frame that runs update(): at most one asteroid with draws in
\* A and at most one star with draws in S
FrameDraws(A, S) ==
    {d \in [asteroid : {Some(r) : r \in A} \cup {None},
            star : {Some(r) : r \in S} \cup {None}, fx : FxDraws] :
        /\ d.asteroid # None => Len(asteroids) < MaxAsteroids
        /\ d.star # None => Len(stars) < MaxStars}
NoDraws == [asteroid |-> None, star |-> None, fx |-> 0]

(***************************************************************************)
(* The object as one record, and its write-back.                           *)
(***************************************************************************)
G == [view |-> view, player |-> player, keys |-> keys, mousePos |-> mousePos,
      asteroidSpeed |-> asteroidSpeed, asteroids |-> asteroids, bullets |-> bullets,
      stars |-> stars, explosions |-> explosions, particles |-> particles,
      engineTrail |-> engineTrail, score |-> score, highScore |-> highScore,
      storage |-> storage, gameRunning |-> gameRunning, paused |-> paused,
      lastShot |-> lastShot, time |-> time, raf |-> <<>>,
      resizeScheduled |-> resizeScheduled,
      gameInfoHidden |-> gameInfoHidden, gameOverHidden |-> gameOverHidden]

Commit(g) ==
    /\ view' = g.view
    /\ player' = g.player
    /\ keys' = g.keys
    /\ mousePos' = g.mousePos
    /\ asteroidSpeed' = g.asteroidSpeed
    /\ asteroids' = g.asteroids
    /\ bullets' = g.bullets
    /\ stars' = g.stars
    /\ explosions' = g.explosions
    /\ particles' = g.particles
    /\ engineTrail' = g.engineTrail
    /\ score' = g.score
    /\ highScore' = g.highScore
    /\ storage' = g.storage
    /\ gameRunning' = g.gameRunning
    /\ paused' = g.paused
    /\ lastShot' = g.lastShot
    /\ time' = g.time
    /\ resizeScheduled' = g.resizeScheduled
    /\ gameInfoHidden' = g.gameInfoHidden
    /\ gameOverHidden' = g.gameOverHidden

\* gameLoop callbacks requested and not yet run
Loops == Len(SelectSeq(rafQueue \o frameQueue, LAMBDA c : c = "gameLoop"))
\* input events are dispatched between animation frames
Idle == frameQueue = <<>>
\* whether the model may run a startGame() (it runs one frame and requests one)
MayStart == time < MaxTime /\ Loops < MaxLoops

(***************************************************************************)
(* Construction, in a window win, with the store st, with the asteroid     *)
(* speed as that isMobile() selects.                                       *)
(***************************************************************************)
\* the constructor: the object it leaves
constructor(win, st, as) ==
    LET read == IF st.getThrows THEN 0 ELSE OrZero(ToNumber(st.item))
        g0 == [view |-> [width |-> 0, height |-> 0],
               player |-> Entity(0, 0, Px(SIZES_PLAYER), Px(SIZES_PLAYER),
                                 Px(SPEEDS_PLAYER)),
               keys |-> {}, mousePos |-> [x |-> 0, y |-> 0], asteroidSpeed |-> as,
               asteroids |-> <<>>, bullets |-> <<>>, stars |-> <<>>,
               explosions |-> <<>>, particles |-> <<>>, engineTrail |-> <<>>,
               score |-> 0, highScore |-> read, storage |-> st,
               gameRunning |-> FALSE, paused |-> FALSE, lastShot |-> 0, time |-> 0,
               raf |-> <<>>, resizeScheduled |-> FALSE,
               gameInfoHidden |-> FALSE, gameOverHidden |-> TRUE]
    IN  resizeCanvas(updateHighScore(g0), win[1], win[2])

\* the state when the page has loaded
Construct(win, st, as) ==
    \E g \in {constructor(win, st, as)} :
        /\ inner = win
        /\ storage = g.storage
        /\ highScore = g.highScore
        /\ score = g.score
        /\ keys = g.keys
        /\ mousePos = g.mousePos
        /\ asteroidSpeed = g.asteroidSpeed
        /\ lastShot = g.lastShot
        /\ gameRunning = g.gameRunning
        /\ paused = g.paused
        /\ time = g.time
        /\ view = g.view
        /\ player = g.player
        /\ engineTrail = g.engineTrail
        /\ asteroids = g.asteroids
        /\ bullets = g.bullets
        /\ explosions = g.explosions
        /\ particles = g.particles
        /\ stars = g.stars
        /\ now = ClockStart
        /\ rafQueue = <<>>
        /\ frameQueue = <<>>
        /\ resizeScheduled = g.resizeScheduled
        /\ gameInfoHidden = g.gameInfoHidden
        /\ gameOverHidden = g.gameOverHidden
        /\ last = [op |-> "constructor", d |-> NoDraws]

\* the page is loaded again: the callbacks requested are dropped with the old
\* page, and the constructor runs with the store as it is
Reload ==
    /\ Idle
    /\ \E g \in {constructor(inner, storage, asteroidSpeed)} : Commit(g)
    /\ rafQueue' = <<>>
    /\ frameQueue' = <<>>
    /\ last' = [op |-> "constructor", d |-> NoDraws]
    /\ UNCHANGED <<inner, now, probe>>

(***************************************************************************)
(* Event handlers.                                                         *)
(***************************************************************************)
\* handleKeyDown(e), reached with document.activeElement = target
handleKeyDown(g, code, target, t) ==
    IF target \in {"startBtn", "restartBtn"} THEN g
    ELSE LET k == IF code \in MovementKeys THEN [g EXCEPT !.keys = @ \cup {code}] ELSE g
             s == IF code = "Space" THEN shoot(k, t) ELSE k
         IN  IF code \in MovementKeys THEN [s EXCEPT !.mousePos = [x |-> 0, y |-> 0]]
             ELSE s

\* handleStartKeyDown(e) / handleRestartKeyDown(e): the focused button's listener
buttonKeyDown(g, code, target, d) ==
    IF code \in {"Enter", "Space"} /\ target = "startBtn" THEN startGame(g, d)
    ELSE IF code \in {"Enter", "Space"} /\ target = "restartBtn"
    THEN startGame(hideGameOver(g), d)
    ELSE g

\* A faulty pause listener, for comparison: Escape toggles the pause whether a
\* session is running or not.
pauseKeyDownAnytime(g, code, repeat) ==
    IF code = "Escape" /\ ~repeat THEN togglePause(g)
    ELSE IF g.paused /\ g.gameRunning /\ ~repeat /\ code \in {"Enter", "Space"}
    THEN togglePause(g)
    ELSE g

\* the pause listener of setupEventListeners
pauseKeyDown(g, code, repeat) ==
    IF code = "Escape" /\ g.gameRunning /\ ~repeat THEN togglePause(g)
    ELSE IF g.paused /\ g.gameRunning /\ ~repeat /\ code \in {"Enter", "Space"}
    THEN togglePause(g)
    ELSE g

\* A keydown event with the focus on the page: the two window listeners, in the
\* order setupEventListeners added them.
KeyDown(codes) ==
    \E code \in codes, repeat \in BOOLEAN :
        /\ Idle
        /\ code = "Space" => Len(bullets) < MaxBullets
        /\ \E g \in {pauseKeyDown(handleKeyDown(G, code, "page", now), code, repeat)} :
               /\ Cardinality(g.keys) <= MaxHeld
               /\ Commit(g)
        /\ last' = [op |-> IF code = "Space" THEN "shoot" ELSE "input", d |-> NoDraws]
        /\ UNCHANGED <<inner, now, rafQueue, frameQueue, probe>>

\* A keydown event with the focus on the start or the restart button: the
\* button's listener, then the two window listeners.
ButtonKeyDown(codes, targets, A, S) ==
    \E code \in codes, target \in targets, repeat \in BOOLEAN :
        \E d \in IF code \in {"Enter", "Space"} /\ ~paused THEN FrameDraws(A, S)
                 ELSE {NoDraws} :
            /\ Idle
            /\ code \in {"Enter", "Space"} => MayStart
            /\ \E g \in {pauseKeyDown(handleKeyDown(buttonKeyDown(G, code, target, d),
                                                     code, target, now), code, repeat)} :
                   /\ Commit(g)
                   /\ rafQueue' = rafQueue \o g.raf
            /\ last' = [op |-> IF code \in {"Enter", "Space"} THEN "startGame"
                               ELSE "input", d |-> d]
            /\ UNCHANGED <<inner, now, frameQueue, probe>>

\* handleKeyUp(e)
KeyUp ==
    \E code \in keys :
        /\ Idle
        /\ keys' = keys \ {code}
        /\ last' = [op |-> "input", d |-> NoDraws]
        /\ UNCHANGED <<inner, view, player, mousePos, asteroidSpeed, asteroids, bullets,
                       stars, explosions, particles, engineTrail, score, highScore,
                       storage, gameRunning, paused, lastShot, time, now, rafQueue,
                       frameQueue, resizeScheduled, gameInfoHidden, gameOverHidden, probe>>

\* handleMouseMove(e) / handleTouchMove(e)
MouseMove(positions) ==
    \E pos \in positions :
        /\ Idle
        /\ mousePos' = pos
        /\ last' = [op |-> "input", d |-> NoDraws]
        /\ UNCHANGED <<inner, view, player, keys, asteroidSpeed, asteroids, bullets,
                       stars, explosions, particles, engineTrail, score, highScore,
                       storage, gameRunning, paused, lastShot, time, now, rafQueue,
                       frameQueue, resizeScheduled, gameInfoHidden, gameOverHidden, probe>>

\* a click on the canvas, or handleTouchStart(e): shoot()
Shoot ==
    /\ Idle
    /\ Len(bullets) < MaxBullets
    /\ \E g \in {shoot(G, now)} : Commit(g)
    /\ last' = [op |-> "shoot", d |-> NoDraws]
    /\ UNCHANGED <<inner, now, rafQueue, frameQueue, probe>>

\* handleStartClick()
StartClick(A, S) ==
    /\ Idle
    /\ MayStart
    /\ \E d \in IF ~paused THEN FrameDraws(A, S) ELSE {NoDraws} :
           /\ \E g \in {startGame(G, d)} :
                  /\ Commit(g)
                  /\ rafQueue' = rafQueue \o g.raf
           /\ last' = [op |-> "startGame", d |-> d]
    /\ UNCHANGED <<inner, now, frameQueue, probe>>

\* handleStartClick(), in a session followed up to frame t0 + MaxTime
StartClickFrom(A, S, t0) ==
    /\ Idle
    /\ time < t0 + MaxTime
    /\ Loops < MaxLoops
    /\ \E d \in IF ~paused THEN FrameDraws(A, S) ELSE {NoDraws} :
           /\ \E g \in {startGame(G, d)} :
                  /\ Commit(g)
                  /\ rafQueue' = rafQueue \o g.raf
           /\ last' = [op |-> "startGame", d |-> d]
    /\ UNCHANGED <<inner, now, frameQueue, probe>>

\* handleRestartClick(), on the game-over screen
RestartClick(A, S) ==
    /\ Idle
    /\ MayStart
    /\ ~gameOverHidden
    /\ \E d \in IF ~paused THEN FrameDraws(A, S) ELSE {NoDraws} :
           /\ \E g \in {startGame(hideGameOver(G), d)} :
                  /\ Commit(g)
                  /\ rafQueue' = rafQueue \o g.raf
           /\ last' = [op |-> "startGame", d |-> d]
    /\ UNCHANGED <<inner, now, frameQueue, probe>>

\* the window is resized to one of wins: handleResize()
WindowResize(wins) ==
    \E win \in wins :
        /\ Idle
        /\ inner' = win
        /\ resizeScheduled' = TRUE
        /\ rafQueue' = IF resizeScheduled THEN rafQueue ELSE Append(rafQueue, "resize")
        /\ last' = [op |-> "input", d |-> NoDraws]
        /\ UNCHANGED <<view, player, keys, mousePos, asteroidSpeed, asteroids, bullets,
                       stars, explosions, particles, engineTrail, score, highScore,
                       storage, gameRunning, paused, lastShot, time, now, frameQueue,
                       gameInfoHidden, gameOverHidden, probe>>

\* the callback handleResize() requested
resizeCallback(g, w, h) == resizeCanvas([g EXCEPT !.resizeScheduled = FALSE], w, h)

\* An animation frame runs the callbacks requested before it began, in order;
\* those requested meanwhile wait for the next.
FrameStarts == frameQueue = <<>>
Pending == IF FrameStarts THEN rafQueue ELSE frameQueue
Waiting == IF FrameStarts THEN <<>> ELSE rafQueue

\* a gameLoop callback runs; the session is followed up to frame t0 + MaxTime
LoopFrameFrom(A, S, t0) ==
    /\ Pending # <<>>
    /\ Head(Pending) = "gameLoop"
    /\ gameRunning => time < t0 + MaxTime
    /\ \E d \in IF gameRunning /\ ~paused THEN FrameDraws(A, S) ELSE {NoDraws} :
           /\ \E g \in {gameLoop(G, d)} :
                  /\ Commit(g)
                  /\ rafQueue' = Waiting \o g.raf
           /\ last' = [op |-> "gameLoop", d |-> d]
    /\ frameQueue' = Tail(Pending)
    /\ UNCHANGED <<inner, now, probe>>

\* a gameLoop callback runs, in a behaviour that began at construction
LoopFrame(A, S) == LoopFrameFrom(A, S, 0)

\* the resize callback runs
ResizeFrame ==
    /\ Pending # <<>>
    /\ Head(Pending) = "resize"
    /\ \E g \in {resizeCallback(G, inner[1], inner[2])} : Commit(g)
    /\ frameQueue' = Tail(Pending)
    /\ rafQueue' = Waiting
    /\ last' = [op |-> "resizeCanvas", d |-> NoDraws]
    /\ UNCHANGED <<inner, now, probe>>

\* the wall clock advances by step milliseconds
AdvanceClock(step) ==
    /\ Idle
    /\ now < ClockStart + MaxClockSteps * step
    /\ now' = now + step
    /\ last' = [op |-> "input", d |-> NoDraws]
    /\ UNCHANGED <<inner, view, player, keys, mousePos, asteroidSpeed, asteroids, bullets,
                   stars, explosions, particles, engineTrail, score, highScore, storage,
                   gameRunning, paused, lastShot, time, rafQueue, frameQueue,
                   resizeScheduled, gameInfoHidden, gameOverHidden, probe>>

\* checkCollision(rect1, rect2) applied to the two rectangles of the probe
Collide ==
    /\ probe.result = None
    /\ probe' = [probe EXCEPT !.result = Some(checkCollision(probe.rect1, probe.rect2))]
    /\ last' = [op |-> "checkCollision", d |-> NoDraws]
    /\ UNCHANGED <<inner, view, player, keys, mousePos, asteroidSpeed, asteroids, bullets,
                   stars, explosions, particles, engineTrail, score, highScore, storage,
                   gameRunning, paused, lastShot, time, now, rafQueue, frameQueue,
                   resizeScheduled, gameInfoHidden, gameOverHidden>>

\* createAsteroid() / createStar() applied to the draws of the probe
CreateAsteroid ==
    /\ probe.made = None
    /\ probe' = [probe EXCEPT !.made = Some(createAsteroid(G, probe.draws))]
    /\ last' = [op |-> "createAsteroid", d |-> NoDraws]
    /\ UNCHANGED <<inner, view, player, keys, mousePos, asteroidSpeed, asteroids, bullets,
                   stars, explosions, particles, engineTrail, score, highScore, storage,
                   gameRunning, paused, lastShot, time, now, rafQueue, frameQueue,
                   resizeScheduled, gameInfoHidden, gameOverHidden>>

CreateStar ==
    /\ probe.made = None
    /\ probe' = [probe EXCEPT !.made = Some(createStar(G, probe.draws))]
    /\ last' = [op |-> "createStar", d |-> NoDraws]
    /\ UNCHANGED <<inner, view, player, keys, mousePos, asteroidSpeed, asteroids, bullets,
                   stars, explosions, particles, engineTrail, score, highScore, storage,
                   gameRunning, paused, lastShot, time, now, rafQueue, frameQueue,
                   resizeScheduled, gameInfoHidden, gameOverHidden>>

\* the draws of a factory: the least, the middle and the greatest of Math.random()
FactoryDraws == [w : {0, 500, 999}, h : {0, 500, 999}, s : {0, 999}, x : {0, 500, 999}]
\* windows 20, 30, 100 and 208 pixels wide
FactoryWindows == {TinyWindow, SnugWindow, PlayWindow, ScenarioWindow}

\* rectangles for the probe, and the probe of a behaviour that gives none
Rects == [x : 0..MaxCoord, y : 0..MaxCoord, width : 1..MaxSide, height : 1..MaxSide]
NoRect == [x |-> 0, y |-> 0, width |-> 0, height |-> 0]
NoProbe == [rect1 |-> NoRect, rect2 |-> NoRect, result |-> None]

(***************************************************************************)
(* The session: start, restart, pause, shots and frames in the play        *)
(* window, where what spawns reaches the player and the bullets at once.   *)
(***************************************************************************)
Init ==
    /\ \E item \in {None, Some(<<"1", "0">>)} :
           Construct(PlayWindow, WorkingStore(item), SPEEDS_ASTEROID_DESKTOP)
    /\ probe = NoProbe

Next ==
    \/ StartClick({BigAsteroid}, {BigStar})
    \/ RestartClick({BigAsteroid}, {BigStar})
    \/ ButtonKeyDown({"Enter"}, {"startBtn"}, {}, {})
    \/ KeyDown({"Escape", "Space"})
    \/ Shoot
    \/ LoopFrame({BigAsteroid}, {BigStar})
    \/ AdvanceClock(SHOT_COOLDOWN \div 2)

Spec == Init /\ [][Next]_vars

\* The same, with the animation frames the browser owes: a callback passed to
\* requestAnimationFrame is called before the next repaint, so a gameLoop
\* callback that is requested and may run does run.
SpecLive == Init /\ [][Next]_vars /\ WF_vars(LoopFrame({BigAsteroid}, {BigStar}))

(***************************************************************************)
(* Collisions: asteroids of two shapes, so that one outlives the frame it  *)
(* spawns in, with shots a cooldown apart.                                 *)
(***************************************************************************)
NextCollisions ==
    \/ StartClick({MidAsteroid}, {})
    \/ Shoot
    \/ LoopFrame({BigAsteroid, MidAsteroid}, {BigStar})
    \/ AdvanceClock(SHOT_COOLDOWN \div 2)

SpecCollisions == Init /\ [][NextCollisions]_vars

(***************************************************************************)
(* Input events: keys, the pointer and a resize of the window, while the   *)
(* session runs and after it is over.                                      *)
(***************************************************************************)
InitInputs ==
    /\ Construct(PlayWindow, WorkingStore(None), SPEEDS_ASTEROID_DESKTOP)
    /\ probe = NoProbe

NextInputs ==
    \/ StartClick({BigAsteroid}, {BigStar})
    \/ RestartClick({BigAsteroid}, {BigStar})
    \/ KeyDown({"Space", "ArrowRight"})
    \/ KeyUp
    \/ MouseMove({NearPointer})
    \/ WindowResize({TinyWindow})
    \/ ResizeFrame
    \/ LoopFrame({BigAsteroid}, {BigStar})

SpecInputs == InitInputs /\ [][NextInputs]_vars

(***************************************************************************)
(* The player: movement keys and the pointer, in a window that leaves it   *)
(* little room and in one smaller than it.                                 *)
(***************************************************************************)
InitPlayer ==
    /\ \E win \in {SnugWindow, TinyWindow} : Construct(win, WorkingStore(None), SPEEDS_ASTEROID_MOBILE)
    /\ probe = NoProbe

NextPlayer ==
    \/ StartClick({}, {})
    \/ KeyDown(ArrowKeys \cup LetterKeys)
    \/ KeyUp
    \/ MouseMove({FarPointer})
    \/ LoopFrame({}, {})

SpecPlayer == InitPlayer /\ [][NextPlayer]_vars

(***************************************************************************)
(* checkCollision on its own: every pair of rectangles of Rects.           *)
(***************************************************************************)
InitRects ==
    /\ Construct(PlayWindow, WorkingStore(None), SPEEDS_ASTEROID_DESKTOP)
    /\ \E r1 \in Rects, r2 \in Rects : probe = [rect1 |-> r1, rect2 |-> r2, result |-> None]

NextRects == Collide

SpecRects == InitRects /\ [][NextRects]_vars

(***************************************************************************)
(* One asteroid and one bullet in one column: the asteroid spawns in the   *)
(* frame that startGame() runs, 40 pixels above the top edge, and the shot *)
(* leaves the player at the top edge.                                      *)
(***************************************************************************)
InitScenario ==
    /\ Construct(ScenarioWindow, WorkingStore(None), SPEEDS_ASTEROID_DESKTOP)
    /\ probe = NoProbe

NextScenario ==
    \/ StartClick({ScenarioAsteroid}, {})
    \/ Shoot
    \/ LoopFrame({}, {})
    \/ AdvanceClock(SHOT_COOLDOWN \div 2)

SpecScenario == InitScenario /\ [][NextScenario]_vars

(***************************************************************************)
(* The purge at the edges: a session well under way, PurgeTime frames run, *)
(* the player where the window put it, the engine trail full, two          *)
(* asteroids and a star within a move or two of the bottom edge and two    *)
(* bullets within a move of the top edge.                                  *)
(***************************************************************************)
\* asteroids 25 pixels square in the leftmost column, of speed 1.2 and 1.3:
\* y = -40 + 1.2 * 169 = -40 + 1.3 * 156 = 162.8, and y = -40 + 1.2 * 168
EdgeAsteroids ==
    {Entity(Px(20), 1628, Px(ASTEROID_MIN_SIZE), Px(ASTEROID_MIN_SIZE), 12),
     Entity(Px(20), 1628, Px(ASTEROID_MIN_SIZE), Px(ASTEROID_MIN_SIZE), 13),
     Entity(Px(20), 1616, Px(ASTEROID_MIN_SIZE), Px(ASTEROID_MIN_SIZE), 12)}
\* stars 15 pixels square in the leftmost column, of speed 1 and 1.1:
\* y = -20 + 1 * 183 and y = -20 + 1.1 * 167
EdgeStars ==
    {Entity(Px(10), 1630, Px(STAR_MIN_SIZE), Px(STAR_MIN_SIZE), 10),
     Entity(Px(10), 1637, Px(STAR_MIN_SIZE), Px(STAR_MIN_SIZE), 11)}
\* bullets: after one more move the lower edge is at 1, at 0 and at -0.1
EdgeBullets ==
    {Entity(460, y, Px(BULLET_WIDTH), Px(BULLET_HEIGHT), Px(SPEEDS_BULLET)) :
        y \in {-60, -70, -71}}
\* the engine trail of a player at rest: one particle per frame, oldest first
FullTrail(pl) ==
    [i \in 1..(TRAIL_LIFE - 1) |->
        [x |-> pl.x + Half(pl.width) + Frac(250 - 500, Px(4)),
         y |-> pl.y + pl.height + (TRAIL_LIFE - i) * Px(2),
         life |-> i]]

InitPurge ==
    /\ inner = PurgeWindow
    /\ view = [width |-> Px(PurgeWindow[1]), height |-> Px(PurgeWindow[2])]
    /\ player = Entity(Half(view.width) - Half(Px(SIZES_PLAYER)),
                       view.height - Px(SIZES_PLAYER) - Px(PLAYER_SPAWN_Y_OFFSET),
                       Px(SIZES_PLAYER), Px(SIZES_PLAYER), Px(SPEEDS_PLAYER))
    /\ keys = {}
    /\ mousePos = [x |-> 0, y |-> 0]
    /\ asteroidSpeed = SPEEDS_ASTEROID_DESKTOP
    /\ \E a1 \in EdgeAsteroids, a2 \in EdgeAsteroids : asteroids = <<a1, a2>>
    /\ \E b1 \in EdgeBullets, b2 \in EdgeBullets : bullets = <<b1, b2>>
    /\ \E s1 \in EdgeStars : stars = <<s1>>
    /\ explosions = <<>>
    /\ particles = <<>>
    /\ engineTrail = FullTrail(player)
    /\ score = 0
    /\ highScore = 0
    /\ storage = WorkingStore(None)
    /\ gameRunning = TRUE
    /\ paused = FALSE
    /\ lastShot = ClockStart - SHOT_COOLDOWN
    /\ time = PurgeTime
    /\ now = ClockStart
    /\ rafQueue = <<"gameLoop">>
    /\ frameQueue = <<>>
    /\ resizeScheduled = FALSE
    /\ gameInfoHidden = TRUE
    /\ gameOverHidden = TRUE
    /\ last = [op |-> "gameLoop", d |-> [asteroid |-> None, star |-> None, fx |-> 250]]
    /\ probe = NoProbe

NextPurge ==
    \/ LoopFrameFrom({}, {}, PurgeTime)
    \/ WindowResize({SnugWindow})
    \/ ResizeFrame

SpecPurge == InitPurge /\ [][NextPurge]_vars

(***************************************************************************)
(* The store: sessions that end, restarts and reloads of the page, with a  *)
(* store that works and holds nothing, a high score, a negative number or  *)
(* something that is no number, and with stores whose getItem or setItem   *)
(* throw.                                                                  *)
(***************************************************************************)
StoredItems == {None, Some(<<"1", "0">>), Some(<<"-", "5">>), Some(<<"x">>)}
Stores == [item : StoredItems, getThrows : BOOLEAN, setThrows : BOOLEAN]

InitStore ==
    /\ \E st \in Stores : Construct(PlayWindow, st, SPEEDS_ASTEROID_DESKTOP)
    /\ probe = NoProbe

NextStore ==
    \/ StartClick({BigAsteroid}, {BigStar})
    \/ RestartClick({BigAsteroid}, {BigStar})
    \/ LoopFrame({BigAsteroid}, {BigStar})
    \/ Reload

SpecStore == InitStore /\ [][NextStore]_vars

(***************************************************************************)
(* The order of update(): the player moves to the right, key held, while   *)
(* a star spawns beside it.                                                *)
(***************************************************************************)
NextOrder ==
    \/ StartClick({}, {SideStar})
    \/ KeyDown({"ArrowRight"})
    \/ KeyUp
    \/ LoopFrame({}, {SideStar})

SpecOrder == InitInputs /\ [][NextOrder]_vars

(***************************************************************************)
(* Keys and pointer together in the play window, where the player has room *)
(* to move every way.                                                      *)
(***************************************************************************)
NextMove ==
    \/ StartClick({}, {})
    \/ KeyDown(ArrowKeys \cup LetterKeys)
    \/ KeyUp
    \/ MouseMove({FarPointer})
    \/ LoopFrame({}, {})

SpecMove == InitInputs /\ [][NextMove]_vars

(***************************************************************************)
(* A session under way in window win after t frames, the player at rest    *)
(* where the constructor put it, with the asteroids, bullets and stars     *)
(* given, after a shot at time shot.                                       *)
(***************************************************************************)
Underway(win, t, as, bs, ss, shot) ==
    /\ inner = win
    /\ view = [width |-> Px(win[1]), height |-> Px(win[2])]
    /\ player = Entity(Half(view.width) - Half(Px(SIZES_PLAYER)),
                       view.height - Px(SIZES_PLAYER) - Px(PLAYER_SPAWN_Y_OFFSET),
                       Px(SIZES_PLAYER), Px(SIZES_PLAYER), Px(SPEEDS_PLAYER))
    /\ keys = {}
    /\ mousePos = [x |-> 0, y |-> 0]
    /\ asteroidSpeed = SPEEDS_ASTEROID_DESKTOP
    /\ asteroids = as
    /\ bullets = bs
    /\ stars = ss
    /\ explosions = <<>>
    /\ particles = <<>>
    /\ engineTrail = FullTrail(player)
    /\ score = 0
    /\ highScore = 0
    /\ storage = WorkingStore(None)
    /\ gameRunning = TRUE
    /\ paused = FALSE
    /\ lastShot = shot
    /\ time = t
    /\ now = ClockStart
    /\ rafQueue = <<"gameLoop">>
    /\ frameQueue = <<>>
    /\ resizeScheduled = FALSE
    /\ gameInfoHidden = TRUE
    /\ gameOverHidden = TRUE
    /\ last = [op |-> "gameLoop", d |-> [asteroid |-> None, star |-> None, fx |-> 250]]
    /\ probe = NoProbe

(***************************************************************************)
(* Arrivals: in the play window, stars and an asteroid that the next move  *)
(* brings onto the player at rest, with or without a bullet just fired.    *)
(***************************************************************************)
\* stars 15 pixels wide of speed 1, spawned at y = -20: two that the next move
\* brings onto the player (y = -20 + 20, 15 high; y = -20 + 19, 16 high), one
\* that passes to the right of it, one that is a move behind
ArrivingStars ==
    {Entity(400, 0, Px(STAR_MIN_SIZE), 150, 10),
     Entity(450, -10, Px(STAR_MIN_SIZE), 160, 10),
     Entity(700, 0, Px(STAR_MIN_SIZE), 150, 10),
     Entity(450, -10, Px(STAR_MIN_SIZE), 150, 10)}
\* an asteroid 25 pixels square of speed 1.2, spawned at y = -40: after 25
\* moves its lower edge is level with the top of the player, over the player
\* and over the column of the bullets
ArrivingAsteroid == Entity(250, -100, Px(ASTEROID_MIN_SIZE), Px(ASTEROID_MIN_SIZE), 12)

InitArrive ==
    \E s1 \in ArrivingStars, s2 \in ArrivingStars,
       as \in {<<>>, <<ArrivingAsteroid>>}, fired \in BOOLEAN :
        \E g \in {constructor(PlayWindow, WorkingStore(None), SPEEDS_ASTEROID_DESKTOP)} :
            Underway(PlayWindow, ArriveTime, as,
                     IF fired THEN <<createBullet(g)>> ELSE <<>>,
                     <<s1, s2>>,
                     IF fired THEN ClockStart ELSE ClockStart - SHOT_COOLDOWN)

NextArrive == LoopFrameFrom({}, {}, ArriveTime)

SpecArrive == InitArrive /\ [][NextArrive]_vars

(***************************************************************************)
(* Scans that remove: a session under way with two asteroids, two bullets  *)
(* and two stars, each at an edge or about to be hit or collected, followed *)
(* until the effects of the hits have died.                                *)
(***************************************************************************)
\* an asteroid 25 pixels square of speed 1.2, spawned a frame ago over the
\* column of the bullets: the next move of a bullet near the top edge hits it
TopAsteroid == Entity(300, -388, Px(ASTEROID_MIN_SIZE), Px(ASTEROID_MIN_SIZE), 12)
\* a star 15 pixels square of speed 1, spawned at y = -20, 44 moves ago: the
\* next move brings it onto the player
LowStar == Entity(400, 240, Px(STAR_MIN_SIZE), Px(STAR_MIN_SIZE), 10)

InitScans ==
    \E a1 \in EdgeAsteroids \cup {TopAsteroid}, a2 \in EdgeAsteroids \cup {TopAsteroid},
       b1 \in EdgeBullets, b2 \in EdgeBullets,
       s1 \in EdgeStars \cup {LowStar}, s2 \in EdgeStars \cup {LowStar} :
        Underway(PurgeWindow, PurgeTime, <<a1, a2>>, <<b1, b2>>, <<s1, s2>>,
                 ClockStart - SHOT_COOLDOWN)

NextScans == LoopFrameFrom({}, {}, PurgeTime + LifeFrames)

SpecScans == InitScans /\ [][NextScans]_vars

(***************************************************************************)
(* The engine trail at its fullest: a session under way, the trail of a    *)
(* player at rest, then frames, pauses, asteroids spawning onto the player *)
(* and starts.                                                             *)
(***************************************************************************)
InitTrail ==
    Underway(PlayWindow, ArriveTime, <<>>, <<>>, <<>>, ClockStart - SHOT_COOLDOWN)

NextTrail ==
    \/ StartClickFrom({BigAsteroid}, {}, ArriveTime)
    \/ KeyDown({"Escape", "ArrowLeft"})
    \/ KeyUp
    \/ LoopFrameFrom({BigAsteroid}, {}, ArriveTime)

SpecTrail == InitTrail /\ [][NextTrail]_vars

(***************************************************************************)
(* A session followed until its effects have died: a star collected and an *)
(* asteroid spawned in the first tick, a shot, and frames without spawns.  *)
(***************************************************************************)
NextLife ==
    \/ StartClick({MidAsteroid}, {BigStar})
    \/ Shoot
    \/ LoopFrameFrom({}, {}, LifeFrames)

SpecLife == InitInputs /\ [][NextLife]_vars

(***************************************************************************)
(* The factories on their own: createAsteroid and createStar in windows of *)
(* several widths, for draws from one end of Math.random() to the other.   *)
(***************************************************************************)
InitFactory ==
    /\ \E win \in FactoryWindows, speed \in {SPEEDS_ASTEROID_DESKTOP, SPEEDS_ASTEROID_MOBILE} :
           Construct(win, WorkingStore(None), speed)
    /\ \E r \in FactoryDraws : probe = [draws |-> r, made |-> None]

NextFactory == CreateAsteroid \/ CreateStar

SpecFactory == InitFactory /\ [][NextFactory]_vars

(***************************************************************************)
(* Resizes of the window before the start, while the session runs and      *)
(* while it is paused.                                                     *)
(***************************************************************************)
NextResize ==
    \/ StartClick({}, {})
    \/ KeyDown({"Escape"})
    \/ WindowResize({SnugWindow, LowWindow})
    \/ ResizeFrame
    \/ LoopFrame({}, {})

SpecResize == InitInputs /\ [][NextResize]_vars

(***************************************************************************)
(* Steps that run update().  A frame callback runs it when the session is  *)
(* running and not paused; startGame() runs it, on the state it has just   *)
(* reset, when the session is not paused.  TickStart is the object as      *)
(* update() finds it, TickDraws the draws of the frame.                    *)
(***************************************************************************)
Ticks ==
    \/ last'.op = "gameLoop" /\ gameRunning /\ ~paused
    \/ last'.op = "startGame" /\ ~paused
TickStart ==
    IF last'.op = "startGame" THEN resetGameState([G EXCEPT !.gameRunning = TRUE]) ELSE G
TickDraws == last'.d
\* the object when checkCollisions() is entered, and after its bullet step
BeforeCollisions == beforeCollisions(TickStart, TickDraws)
AfterBullets == bulletStep(BeforeCollisions, TickDraws)

\* the elements of a sequence
Range(seq) == {seq[i] : i \in 1..Len(seq)}
\* the length of the intersection of the intervals [a1, a2] and [b1, b2],
\* negative when they are apart
Extent(a1, a2, b1, b2) == Min(a2, b2) - Max(a1, b1)

(***************************************************************************)
(* Player movement (SpecPlayer).                                           *)
(***************************************************************************)
\* C1, as stated: after every Player.update the player satisfies
\* 0 <= x <= view.width - width and 0 <= y <= view.height - height, whatever
\* the keys held, the pointer and the viewport.
C1_PlayerInsideViewport ==
    [][Ticks => /\ 0 <= player'.x /\ player'.x <= view'.width - player'.width
                /\ 0 <= player'.y /\ player'.y <= view'.height - player'.height]_vars

\* C1, amended: after every Player.update x >= 0 and y >= 0; x <= view.width -
\* width provided the viewport is at least as wide as the player, and
\* y <= view.height - height provided it is at least as high; in a viewport
\* narrower (lower) than the player x (y) is 0.
C1_PlayerInsideRoomyViewport ==
    [][Ticks => /\ 0 <= player'.x
                /\ 0 <= player'.y
                /\ IF view'.width >= player'.width
                   THEN player'.x <= view'.width - player'.width
                   ELSE player'.x = 0
                /\ IF view'.height >= player'.height
                   THEN player'.y <= view'.height - player'.height
                   ELSE player'.y = 0]_vars

\* a frame has moved the player, ArrowRight held, against the right edge of a
\* viewport wider than it
C1_Witness ==
    /\ last.op = "gameLoop"
    /\ "ArrowRight" \in keys
    /\ view.width > player.width
    /\ player.x = view.width - player.width

(***************************************************************************)
(* checkCollision (SpecRects).                                             *)
(***************************************************************************)
\* C2: checkCollision(a, b) is true exactly when the rectangles overlap over a
\* strictly positive length on both axes; it is false when they only touch
\* along an edge or at a corner; and it is the same for (b, a).
C2_StrictOverlap ==
    probe.result # None =>
        LET a == probe.rect1
            b == probe.rect2
            hit == probe.result[1]
            ex == Extent(a.x, a.x + a.width, b.x, b.x + b.width)
            ey == Extent(a.y, a.y + a.height, b.y, b.y + b.height)
        IN  /\ hit <=> (ex > 0 /\ ey > 0)
            /\ (ex = 0 \/ ey = 0) => ~hit
            /\ hit <=> checkCollision(b, a)

\* the answer for two rectangles that share an edge: a ends where b begins,
\* and they overlap vertically
C2_Witness ==
    /\ probe.result = Some(FALSE)
    /\ probe.rect1.x + probe.rect1.width = probe.rect2.x
    /\ probe.rect1.y = probe.rect2.y

(***************************************************************************)
(* Collision resolution (SpecCollisions).                                  *)
(***************************************************************************)
\* C3: in a tick where, after the bullet step, a live asteroid intersects the
\* player, gameRunning becomes false, the score is what the bullet step left
\* and the stars are untouched, even when a star intersects the player.
C3_PlayerHitEndsTick ==
    [][Ticks => \A r \in {AfterBullets} :
                    playerHit(r) => /\ ~gameRunning'
                                    /\ score' = r.score
                                    /\ stars' = r.stars]_vars

\* the session is over with an asteroid and a star both on the player
C3_Witness ==
    /\ last.op = "gameLoop"
    /\ ~gameRunning
    /\ \E i \in 1..Len(asteroids) : checkCollision(player, asteroids[i])
    /\ \E j \in 1..Len(stars) : checkCollision(player, stars[j])

\* C5: in the bullet step the bullets removed, the asteroids removed and the
\* explosions added are equally many; what is left of bullets and asteroids
\* keeps its order; every bullet that intersected no asteroid when the step
\* began is still in bullets; and no more asteroids are removed than bullets.
C5_OneHitPerBullet ==
    [][Ticks => \A b \in {BeforeCollisions} : \A r \in {bulletStep(b, TickDraws)} :
        LET hits == Len(b.bullets) - Len(r.bullets)
        IN  /\ hits >= 0
            /\ Len(b.asteroids) - Len(r.asteroids) = hits
            /\ Len(r.explosions) - Len(b.explosions) = hits
            /\ Range(r.bullets) \subseteq Range(b.bullets)
            /\ Range(r.asteroids) \subseteq Range(b.asteroids)
            /\ \A i \in 1..Len(b.bullets) :
                   (\A j \in 1..Len(b.asteroids) :
                        ~checkCollision(b.bullets[i], b.asteroids[j]))
                   => b.bullets[i] \in Range(r.bullets)
            /\ bullets' = r.bullets
            /\ asteroids' = r.asteroids]_vars

\* one bullet met two asteroids of one shape in one column, the older a little
\* lower than the one just spawned: the one just spawned exploded (the explosion
\* is centred on it), the bullet is gone and the older one is alive
C5_Witness ==
    /\ last.op = "gameLoop"
    /\ gameRunning
    /\ bullets = <<>>
    /\ Len(asteroids) = 1
    /\ asteroids[1].y > Px(ASTEROID_SPAWN_Y)
    /\ score = ASTEROID_SCORE
    /\ \E e \in 1..Len(explosions) :
           /\ explosions[e].life = EXPLOSION_LIFE
           /\ explosions[e].x = asteroids[1].x + Half(asteroids[1].width)
                                   - Px(EXPLOSION_OFFSET)
           /\ explosions[e].y = Px(ASTEROID_SPAWN_Y) + Half(asteroids[1].height)
                                   - Px(EXPLOSION_OFFSET)

(***************************************************************************)
(* Score and the end of the session (SpecInputs).                          *)
(***************************************************************************)
\* C4: only a frame's update() and startGame() change the score; a step that
\* runs update() adds to the score it starts from (0 in startGame())
\* ASTEROID_SCORE for every asteroid its collision check removes, each with a
\* bullet, and STAR_SCORE for every star it removes, and nothing else;
\* startGame() without a frame leaves the score 0.
C4_ScoreAccounting ==
    [][/\ score' # score => last'.op \in {"gameLoop", "startGame"}
       /\ (last'.op = "startGame" /\ ~Ticks) => score' = 0
       /\ Ticks => \A b \in {BeforeCollisions} :
            LET destroyed == Len(b.asteroids) - Len(asteroids')
                collected == Len(b.stars) - Len(stars')
            IN  /\ destroyed = Len(b.bullets) - Len(bullets')
                /\ score' = TickStart.score + ASTEROID_SCORE * destroyed
                                            + STAR_SCORE * collected]_vars

\* a frame in which a bullet destroyed an asteroid and the player collected a
\* star, from score 0
C4_Witness ==
    /\ last.op = "gameLoop"
    /\ gameRunning
    /\ score = ASTEROID_SCORE + STAR_SCORE
    /\ \E e \in 1..Len(explosions) : explosions[e].life = EXPLOSION_LIFE
    /\ \E q \in 1..Len(particles) : particles[q].life = STAR_PARTICLE_LIFE

\* C10: while the session is not running (before the first start and after a
\* game over) no step but startGame() changes the score, the asteroids, the
\* bullets, the stars, the explosions, the particles or the engine trail:
\* not a frame callback, not shoot(), not any other input event.
C10_FrozenUntilStart ==
    [][(~gameRunning /\ last'.op # "startGame") =>
            UNCHANGED <<score, asteroids, bullets, stars, explosions, particles,
                        engineTrail>>]_vars

\* the session is over, a star is on the player, and the frame callback that
\* the last tick requested has run
C10_Witness ==
    /\ ~gameRunning
    /\ ~gameOverHidden
    /\ last.op = "gameLoop"
    /\ Loops = 0
    /\ \E j \in 1..Len(stars) : checkCollision(player, stars[j])

(***************************************************************************)
(* The session (Spec).                                                     *)
(***************************************************************************)
\* C6: a shoot() at time now, in a running and unpaused session whose last
\* successful shot was at lastShot (none since the last start when lastShot
\* is 0), creates a bullet exactly when now - lastShot >= SHOT_COOLDOWN, and
\* then exactly one; otherwise bullets is unchanged.
C6_Cooldown ==
    [][(last'.op = "shoot" /\ gameRunning /\ ~paused) =>
            IF now - lastShot >= SHOT_COOLDOWN
            THEN Len(bullets') = Len(bullets) + 1 /\ lastShot' = now
            ELSE bullets' = bullets /\ lastShot' = lastShot]_vars

\* a second shot, exactly one cooldown after the first, both after the frame
\* that startGame() ran
C6_Witness ==
    /\ last.op = "shoot"
    /\ Len(bullets) = 2
    /\ lastShot = ClockStart + SHOT_COOLDOWN
    /\ time = 1

\* C7, for the engine trail: after startGame() the trail holds no particle
\* from before the call, that is none older than the one the frame that
\* startGame() runs adds (an added particle ends its first frame with life
\* TRAIL_LIFE - 1).
C7_TrailCleared ==
    last.op = "startGame" =>
        \A i \in 1..Len(engineTrail) : engineTrail[i].life >= TRAIL_LIFE - 1

\* C8: after startGame() returns, gameRunning is true and paused is false.
C8_StartGameRuns ==
    last.op = "startGame" => gameRunning /\ ~paused

\* C9: a tick whose collision check reaches gameOver() (an asteroid is on the
\* player after the bullet step) ends with gameRunning false, highScore the
\* larger of highScore and score, and score, asteroids, bullets, stars,
\* explosions and particles as the bullet step left them.
C9_GameOverEffect ==
    [][Ticks => \A r \in {AfterBullets} :
                    playerHit(r) => /\ ~gameRunning'
                                    /\ highScore' = Max(highScore, r.score)
                                    /\ score' = r.score
                                    /\ asteroids' = r.asteroids
                                    /\ bullets' = r.bullets
                                    /\ stars' = r.stars
                                    /\ explosions' = r.explosions
                                    /\ particles' = r.particles]_vars

\* a session that ended below the stored high score, the asteroid that ended
\* it still on the player
C9_Witness ==
    /\ ~gameRunning
    /\ ~gameOverHidden
    /\ last.op \in {"gameLoop", "startGame"}
    /\ score < highScore
    /\ \E i \in 1..Len(asteroids) : checkCollision(player, asteroids[i])

\* C13: the score is a non-negative integer; no step but startGame() lowers
\* it; and no step lowers highScore.
C13_ScoresNeverFall ==
    [][/\ score' \in Nat
       /\ last'.op # "startGame" => score' >= score
       /\ highScore' >= highScore]_vars

\* a restart after a session that ended above the stored high score: the score
\* is back to 0 and highScore is what that session raised it to
C13_Witness ==
    /\ last.op = "startGame"
    /\ gameRunning
    /\ score = 0
    /\ highScore = STAR_SCORE
    /\ storage.item = Some(StringOf(STAR_SCORE))

\* C16: a frame callback that finds the session running and paused counts the
\* frame and requests the next one, and leaves asteroids, bullets, stars,
\* explosions, particles, the engine trail, the player and the score as they
\* were.
C16_PausedFrameFrozen ==
    [][(last'.op = "gameLoop" /\ gameRunning /\ paused)
        => /\ UNCHANGED <<asteroids, bullets, stars, explosions, particles,
                          engineTrail, player, score>>
           /\ time' = time + 1
           /\ Len(rafQueue') > 0]_vars

\* a frame has run in a paused session with a bullet in flight
C16_Witness ==
    /\ last.op = "gameLoop"
    /\ gameRunning
    /\ paused
    /\ bullets # <<>>
    /\ engineTrail # <<>>

\* C17: a keydown that changes paused (the pause listener has called
\* togglePause()) leaves the object as it was but for paused, which is
\* negated; and togglePause() applied twice to the object gives it back.
C17_TogglePauseOnlyPaused ==
    [][(last'.op \in {"input", "shoot"} /\ paused' # paused)
        => /\ G' = [G EXCEPT !.paused = ~paused]
           /\ togglePause(togglePause(G)) = G
           /\ UNCHANGED <<rafQueue, frameQueue, now, inner>>]_vars

\* the session has been paused after a shot, a frame after the one that
\* startGame() ran
C17_Witness ==
    /\ last.op = "input"
    /\ gameRunning
    /\ paused
    /\ lastShot > 0
    /\ bullets # <<>>
    /\ time > 1

\* C18: shoot() in a session that is not running (before the first start,
\* after a game over) or is paused leaves bullets and lastShot as they were;
\* a shoot() that adds a bullet found the session running and not paused.
C18_ShootOnlyWhenRunning ==
    [][last'.op = "shoot"
        => /\ (~gameRunning \/ paused) => bullets' = bullets /\ lastShot' = lastShot
           /\ bullets' # bullets => gameRunning /\ ~paused]_vars

\* a click on the canvas of a paused session, the cooldown long over and no
\* bullet in flight: none is created
C18_Witness ==
    /\ last.op = "shoot"
    /\ gameRunning
    /\ paused
    /\ now - lastShot >= SHOT_COOLDOWN
    /\ bullets = <<>>

\* C19: at most one gameLoop callback is requested and not yet run.
C19_OneLoopScheduled == Loops <= 1

(***************************************************************************)
(* The store (SpecStore).                                                  *)
(***************************************************************************)
\* C14: with a store whose getItem throws the constructor leaves highScore 0
\* and the session not running; with a store whose getItem or setItem throws,
\* a tick whose collision check reaches gameOver() ends with gameRunning
\* false, highScore the larger of highScore and score, the game-over screen
\* shown, and the next frame requested as after any tick.
C14_StoreFailuresSwallowed ==
    [][/\ (last'.op = "constructor" /\ storage.getThrows)
            => highScore' = 0 /\ score' = 0 /\ ~gameRunning'
       /\ (Ticks /\ (storage.getThrows \/ storage.setThrows))
            => \A r \in {AfterBullets} :
                 playerHit(r) => /\ ~gameRunning'
                                 /\ score' = r.score
                                 /\ highScore' = Max(highScore, r.score)
                                 /\ ~gameOverHidden'
                                 /\ Len(rafQueue') > 0]_vars

\* a session has ended above the high score with a store whose setItem throws:
\* highScore is raised, the item is not
C14_Witness ==
    /\ storage.setThrows
    /\ ~gameRunning
    /\ ~gameOverHidden
    /\ last.op = "gameLoop"
    /\ score = STAR_SCORE
    /\ highScore = STAR_SCORE
    /\ storage.item # Some(StringOf(STAR_SCORE))

\* the high score a constructor would read from the store
ReadBack(st) == OrZero(ToNumber(st.item))

\* C15: with a store that does not throw, after every step the high score
\* read from the item is highScore; when the session is not running it is at
\* least the score; and the constructor of a reloaded page leaves highScore as
\* it was.
C15_PersistedHighScore ==
    [][(~storage.getThrows /\ ~storage.setThrows)
        => /\ ReadBack(storage') = highScore'
           /\ ~gameRunning' => highScore' >= score'
           /\ last'.op = "constructor" => highScore' = highScore]_vars

\* the page reloaded after a session that ended with a score no stored item
\* held before: the constructor has read it back
C15_Witness ==
    /\ last.op = "constructor"
    /\ ~storage.getThrows /\ ~storage.setThrows
    /\ storage.item = Some(<<"2", "0">>)
    /\ highScore = STAR_SCORE

(***************************************************************************)
(* One asteroid, one bullet (SpecScenario).                                *)
(***************************************************************************)
\* the asteroid (100, -40, 30, 30, speed 2) and the bullet (100, 0, 4, 15,
\* speed 8) after k ticks without a collision
ScenarioAsteroidAt(k) ==
    Entity(Px(100), Px(-40) + k * Px(2), Px(30), Px(30), Px(2))
ScenarioBulletAt(k) ==
    Entity(Px(100), 0 - k * Px(8), Px(4), Px(15), Px(8))

\* C11: in a running session that holds exactly that asteroid and that bullet,
\* every tick either leaves the bullet in flight or is the one collision: the
\* asteroid and the bullet are both removed, the score grows by
\* ASTEROID_SCORE and one explosion is added.  (A bullet gone with the
\* asteroid alive can never hit it.)
C11_ScenarioCollides ==
    [][\A k \in 0..MaxTime :
         (/\ last'.op = "gameLoop" /\ gameRunning /\ ~paused
          /\ asteroids = <<ScenarioAsteroidAt(k)>>
          /\ bullets = <<ScenarioBulletAt(k)>>)
         => \/ bullets' # <<>>
            \/ /\ asteroids' = <<>>
               /\ bullets' = <<>>
               /\ score' = score + ASTEROID_SCORE
               /\ Len(explosions') = Len(explosions) + 1]_vars

(***************************************************************************)
(* The purge at the edges (SpecPurge).                                     *)
(***************************************************************************)
\* C12: in a tick, updateAsteroids() and updateStars() leave exactly the moved
\* asteroids and stars whose y is not strictly greater than view.height (one at
\* y = view.height is kept), updateBullets() leaves exactly the moved bullets
\* whose y + height is not strictly less than 0, in their order; and at the end
\* of the tick no asteroid or star with y > view.height and no bullet with
\* y + height < 0 is in its collection.
C12_PurgeAtEdges ==
    [][Ticks => \A g \in {TickStart} :
        /\ updateAsteroids(g).asteroids
              = SelectSeq([i \in 1..Len(g.asteroids) |-> AsteroidUpdate(g.asteroids[i])],
                          LAMBDA a : ~(a.y > g.view.height))
        /\ updateStars(g).stars
              = SelectSeq([i \in 1..Len(g.stars) |-> StarUpdate(g.stars[i])],
                          LAMBDA z : ~(z.y > g.view.height))
        /\ updateBullets(g).bullets
              = SelectSeq([i \in 1..Len(g.bullets) |-> BulletUpdate(g.bullets[i])],
                          LAMBDA b : ~(b.y + b.height < 0))
        /\ \A a \in Range(asteroids') : a.y <= view'.height
        /\ \A z \in Range(stars') : z.y <= view'.height
        /\ \A b \in Range(bullets') : b.y + b.height >= 0]_vars

\* after the first frame of a behaviour that began with two asteroids and two
\* bullets: one asteroid is left, at y = view.height, and one bullet, its lower
\* edge at 0; the other two were purged (nothing was hit: the score is 0)
C12_Witness ==
    /\ last.op = "gameLoop"
    /\ time = PurgeTime + 1
    /\ score = 0
    /\ Len(asteroids) = 1 /\ asteroids[1].y = view.height
    /\ Len(bullets) = 1 /\ bullets[1].y + bullets[1].height = 0
    /\ Len(stars) = 1 /\ stars[1].y = view.height

(***************************************************************************)
(* The order of update() (SpecOrder).                                      *)
(***************************************************************************)
\* C20: the collision checks of a tick see the player where the tick's
\* movement puts it: the tick ends as checkCollisions() would end it when
\* called with the player already moved.
C20_CollisionsAfterPlayerMove ==
    [][Ticks => \A b \in {BeforeCollisions} :
        \A c \in {checkCollisions([b EXCEPT !.player = PlayerUpdate(@, b.keys,
                                                    b.mousePos, b.view)], TickDraws)} :
            /\ gameRunning' = c.gameRunning
            /\ score' = c.score
            /\ asteroids' = c.asteroids
            /\ stars' = c.stars]_vars

(***************************************************************************)
(* Resizes (SpecResize).                                                   *)
(***************************************************************************)
\* C21: after resizeCanvas() the player lies within the new viewport:
\* 0 <= x <= view.width - width and 0 <= y <= view.height - height.
C21_PlayerInsideAfterResize ==
    [][last'.op = "resizeCanvas"
        => /\ 0 <= player'.x /\ player'.x <= view'.width - player'.width
           /\ 0 <= player'.y /\ player'.y <= view'.height - player'.height]_vars

(***************************************************************************)
(* The factories (SpecFactory).                                            *)
(***************************************************************************)
\* the margin and the spawn height of the factory that made the probe's entity
MadeMargin ==
    IF last.op = "createAsteroid" THEN Px(ASTEROID_HORIZONTAL_MARGIN)
    ELSE Px(STAR_HORIZONTAL_MARGIN)
MadeSpawnY == IF last.op = "createAsteroid" THEN Px(ASTEROID_SPAWN_Y) ELSE Px(STAR_SPAWN_Y)

\* C22 as stated: every asteroid and star created, for any viewport width,
\* has x >= HORIZONTAL_MARGIN/2 and x <= view.width - width - HORIZONTAL_MARGIN/2.
C22_SpawnInsideBand ==
    probe.made # None =>
        LET e == probe.made[1]
        IN  /\ e.x >= Half(MadeMargin)
            /\ e.x <= view.width - e.width - Half(MadeMargin)

\* C22, amended: every asteroid and star created has x >= HORIZONTAL_MARGIN/2;
\* it has x <= view.width - width - HORIZONTAL_MARGIN/2 when the viewport is
\* at least width + HORIZONTAL_MARGIN wide, and x = HORIZONTAL_MARGIN/2
\* otherwise.
C22_SpawnInsideBandIfAny ==
    probe.made # None =>
        LET e == probe.made[1]
        IN  /\ e.x >= Half(MadeMargin)
            /\ IF view.width >= e.width + MadeMargin
               THEN e.x <= view.width - e.width - Half(MadeMargin)
               ELSE e.x = Half(MadeMargin)

\* an asteroid created strictly inside a band that has room
C22_Witness ==
    /\ last.op = "createAsteroid"
    /\ probe.made # None
    /\ view.width > probe.made[1].width + MadeMargin
    /\ probe.made[1].x > Half(MadeMargin)
    /\ probe.made[1].x < view.width - probe.made[1].width - Half(MadeMargin)

\* C23 as stated: every asteroid and star is created above the viewport, its
\* bounding box not reaching into the playfield: y < 0 and y + height <= 0.
C23_SpawnBoxAbove ==
    probe.made # None =>
        LET e == probe.made[1]
        IN  e.y < 0 /\ e.y + e.height <= 0

\* C23, amended: every asteroid and star is created with y = SPAWN_Y < 0; its
\* bounding box stays above the playfield (y + height <= 0) exactly when its
\* height is at most -SPAWN_Y, and an entity as high as the factory makes
\* them reaches below the top edge.
C23_SpawnPositionAbove ==
    probe.made # None =>
        LET e == probe.made[1]
        IN  /\ e.y = MadeSpawnY
            /\ e.y < 0
            /\ (e.y + e.height <= 0) <=> (e.height <= -MadeSpawnY)
            /\ probe.draws.h = 999 => e.y + e.height > 0

\* a star of the least height: its box ends above the top edge
C23_Witness ==
    /\ last.op = "createStar"
    /\ probe.made # None
    /\ probe.made[1].height = Px(STAR_MIN_SIZE)
    /\ probe.made[1].y + probe.made[1].height < 0

(***************************************************************************)
(* Keys before pointer (SpecMove).                                         *)
(***************************************************************************)
\* 1 when one of the codes is held, 0 otherwise
Held(codes) == IF keys \cap codes # {} THEN 1 ELSE 0

\* C24: in Player.update, when a movement key is held the pointer has no
\* effect: before clamping x changes by speed * ([right held] - [left held])
\* and y by speed * ([down held] - [up held]); the pointer pulls the player
\* (a tenth of the way to it) only when no movement key is held.
C24_KeysBeforePointer ==
    [][Ticks =>
        LET dx == player.speed * (Held({"ArrowRight", "KeyD"}) - Held({"ArrowLeft", "KeyA"}))
            dy == player.speed * (Held({"ArrowDown", "KeyS"}) - Held({"ArrowUp", "KeyW"}))
            px == IF mousePos.x > 0 /\ mousePos.y > 0
                  THEN Tenth(mousePos.x - Half(player.width) - player.x) ELSE 0
            py == IF mousePos.x > 0 /\ mousePos.y > 0
                  THEN Tenth(mousePos.y - Half(player.height) - player.y) ELSE 0
        IN  IF keys \cap MovementKeys # {}
            THEN /\ player'.x = clamp(player.x + dx, 0, view.width - player.width)
                 /\ player'.y = clamp(player.y + dy, 0, view.height - player.height)
            ELSE /\ player'.x = clamp(player.x + px, 0, view.width - player.width)
                 /\ player'.y = clamp(player.y + py, 0, view.height - player.height)]_vars

\* the first tick has moved the player one step right and one step down from
\* where the constructor put it, both keys held, the pointer far to the lower
\* right
C24_Witness ==
    /\ last.op = "startGame"
    /\ keys = {"ArrowRight", "ArrowDown"}
    /\ mousePos = FarPointer
    /\ time = 1
    /\ player.x = Half(view.width) - Half(player.width) + player.speed
    /\ player.y = view.height - player.height - Px(PLAYER_SPAWN_Y_OFFSET) + player.speed

(***************************************************************************)
(* The lives of effects (SpecLife).                                        *)
(***************************************************************************)
\* the lives of the elements of a list, and what one tick leaves of them
Lives(list) == [i \in 1..Len(list) |-> list[i].life]
Aged(lives) == SelectSeq([i \in 1..Len(lives) |-> lives[i] - 1], LAMBDA n : n > 0)

\* C25: every unpaused tick takes 1 from the life of each particle, explosion
\* and engine-trail particle and removes those whose life reaches 0 (what the
\* tick creates comes after them, at its initial life; the trail particle of
\* the tick is added before the trail is aged); at the end of every tick each
\* element has 0 < life <= its initial life.
C25_LivesCountDown ==
    [][Ticks => \A g \in {TickStart} :
        LET ps == Aged(Lives(g.particles))
            es == Aged(Lives(g.explosions))
        IN  /\ Len(particles') >= Len(ps)
            /\ SubSeq(Lives(particles'), 1, Len(ps)) = ps
            /\ \A i \in Len(ps) + 1..Len(particles') :
                   particles'[i].life = particles'[i].maxLife
            /\ Len(explosions') >= Len(es)
            /\ SubSeq(Lives(explosions'), 1, Len(es)) = es
            /\ \A i \in Len(es) + 1..Len(explosions') :
                   explosions'[i].life = explosions'[i].maxLife
            /\ Lives(engineTrail') = Aged(Append(Lives(g.engineTrail), TRAIL_LIFE))
            /\ \A i \in 1..Len(particles') :
                   /\ 0 < particles'[i].life
                   /\ particles'[i].life <= particles'[i].maxLife
                   /\ particles'[i].maxLife \in {EXPLOSION_PARTICLE_LIFE, STAR_PARTICLE_LIFE}
            /\ \A i \in 1..Len(explosions') :
                   /\ 0 < explosions'[i].life
                   /\ explosions'[i].life <= explosions'[i].maxLife
                   /\ explosions'[i].maxLife = EXPLOSION_LIFE
            /\ \A i \in 1..Len(engineTrail') :
                   0 < engineTrail'[i].life /\ engineTrail'[i].life <= TRAIL_LIFE]_vars

\* the tick in which an explosion died, EXPLOSION_LIFE ticks after the hit: its
\* particles live on, and the star's particles with them
C25_Witness ==
    /\ last.op = "gameLoop"
    /\ gameRunning
    /\ explosions = <<>>
    /\ \E i \in 1..Len(particles) :
           /\ particles[i].maxLife = EXPLOSION_PARTICLE_LIFE
           /\ particles[i].life = EXPLOSION_PARTICLE_LIFE - EXPLOSION_LIFE
    /\ \E i \in 1..Len(particles) : particles[i].maxLife = STAR_PARTICLE_LIFE

(***************************************************************************)
(* Stars collected (SpecArrive).                                           *)
(***************************************************************************)
\* C26: in a tick that does not end in game over every star that intersects
\* the player is removed (all of them, when several do), each adds STAR_SCORE
\* to the score and 12 particles at its centre; no star left intersects the
\* player where checkCollisions() saw it.
C26_StarsCollected ==
    [][Ticks => \A b \in {AfterBullets} :
        ~playerHit(b) =>
            LET hit == {i \in 1..Len(b.stars) : checkCollision(b.player, b.stars[i])}
                cx(i) == b.stars[i].x + Half(b.stars[i].width)
                cy(i) == b.stars[i].y + Half(b.stars[i].height)
                fresh == Len(b.particles) + 1..Len(particles')
            IN  /\ gameRunning'
                /\ stars' = SelectSeq(b.stars, LAMBDA s : ~checkCollision(b.player, s))
                /\ \A k \in 1..Len(stars') : ~checkCollision(b.player, stars'[k])
                /\ score' = b.score + STAR_SCORE * Cardinality(hit)
                /\ Len(particles') = Len(b.particles) + 12 * Cardinality(hit)
                /\ SubSeq(particles', 1, Len(b.particles)) = b.particles
                /\ \A i \in hit :
                       Cardinality({k \in fresh : /\ particles'[k].x = cx(i)
                                                  /\ particles'[k].y = cy(i)})
                           = 12 * Cardinality({j \in hit : cx(j) = cx(i) /\ cy(j) = cy(i)})]_vars

\* one tick has collected two stars that reached the player together
C26_Witness ==
    /\ last.op = "gameLoop"
    /\ gameRunning
    /\ time = ArriveTime + 1
    /\ stars = <<>>
    /\ score = 2 * STAR_SCORE
    /\ Len(particles) = 2 * STAR_PARTICLE_BURST
    /\ particles[1].x # particles[Len(particles)].x

(***************************************************************************)
(* Bullets before the player (SpecArrive).                                 *)
(***************************************************************************)
\* C27: in checkCollisions() the bullets are resolved against the asteroids,
\* all of them, before the player is tested: the session ends exactly when an
\* asteroid left by the bullets intersects the player, so an asteroid that
\* intersects a bullet and the player is destroyed by the bullet, scores
\* ASTEROID_SCORE and does not end the game; and when the session ends, no
\* bullet left intersects an asteroid left.
C27_BulletsBeforePlayer ==
    [][Ticks => \A b \in {BeforeCollisions} : \A r \in {bulletStep(b, TickDraws)} :
        /\ gameRunning' = ~playerHit(r)
        /\ (playerHit(b) /\ ~playerHit(r)) =>
               /\ score' >= b.score + ASTEROID_SCORE
               /\ Len(explosions') > Len(b.explosions)
               /\ \A i \in 1..Len(asteroids') : ~checkCollision(b.player, asteroids'[i])
        /\ ~gameRunning' =>
               /\ asteroids' = r.asteroids /\ bullets' = r.bullets
               /\ score' = r.score /\ explosions' = r.explosions
               /\ \A i \in 1..Len(bullets'), j \in 1..Len(asteroids') :
                      ~checkCollision(bullets'[i], asteroids'[j])]_vars

\* the asteroid reached the bullet and the player in one tick: the bullet
\* destroyed it where it overlapped the player, and the session runs on
C27_Witness ==
    /\ last.op = "gameLoop"
    /\ gameRunning
    /\ time = ArriveTime + 1
    /\ asteroids = <<>>
    /\ bullets = <<>>
    /\ score >= ASTEROID_SCORE
    /\ checkCollision(player, AsteroidUpdate(ArrivingAsteroid))
    /\ Len(explosions) = 1
    /\ explosions[1].x + Px(EXPLOSION_OFFSET)
           = ArrivingAsteroid.x + Half(ArrivingAsteroid.width)

(***************************************************************************)
(* Scans that remove (SpecScans).                                          *)
(***************************************************************************)
\* C28: in every scan that deletes while it runs backwards each element
\* present at the start is processed exactly once, whichever are removed: the
\* six update scans leave the elements of the list, each updated once, less
\* those the update puts past the removal test, in their order; the bullet
\* loop of checkCollisions() removes one asteroid, adds ASTEROID_SCORE and one
\* explosion per bullet removed, keeps every bullet that meets no asteroid and
\* leaves no bullet on an asteroid; the star loop leaves exactly the stars
\* that do not intersect the player.
C28_EachElementOnce ==
    [][Ticks => \A g \in {TickStart} : \A b \in {BeforeCollisions} : \A r \in {AfterBullets} :
        /\ updateAsteroids(g).asteroids
              = SelectSeq([i \in 1..Len(g.asteroids) |-> AsteroidUpdate(g.asteroids[i])],
                          LAMBDA e : e.y <= g.view.height)
        /\ updateBullets(g).bullets
              = SelectSeq([i \in 1..Len(g.bullets) |-> BulletUpdate(g.bullets[i])],
                          LAMBDA e : e.y + e.height >= 0)
        /\ updateStars(g).stars
              = SelectSeq([i \in 1..Len(g.stars) |-> StarUpdate(g.stars[i])],
                          LAMBDA e : e.y <= g.view.height)
        /\ updateExplosions(g).explosions
              = SelectSeq([i \in 1..Len(g.explosions) |-> ExplosionUpdate(g.explosions[i])],
                          LAMBDA e : e.life > 0)
        /\ updateParticles(g).particles
              = SelectSeq([i \in 1..Len(g.particles) |-> ParticleUpdate(g.particles[i])],
                          LAMBDA e : e.life > 0)
        /\ EngineTrailUpdate(g.engineTrail)
              = SelectSeq([i \in 1..Len(g.engineTrail) |->
                              [g.engineTrail[i] EXCEPT !.y = @ + Px(2), !.life = @ - 1]],
                          LAMBDA e : e.life > 0)
        /\ Len(b.asteroids) - Len(r.asteroids) = Len(b.bullets) - Len(r.bullets)
        /\ r.score = b.score + ASTEROID_SCORE * (Len(b.bullets) - Len(r.bullets))
        /\ Len(r.explosions) = Len(b.explosions) + Len(b.bullets) - Len(r.bullets)
        /\ Len(r.bullets)
              >= Cardinality({i \in 1..Len(b.bullets) :
                     \A j \in 1..Len(b.asteroids) :
                         ~checkCollision(b.bullets[i], b.asteroids[j])})
        /\ \A i \in 1..Len(r.bullets), j \in 1..Len(r.asteroids) :
               ~checkCollision(r.bullets[i], r.asteroids[j])
        /\ ~playerHit(r) =>
               stars' = SelectSeq(r.stars, LAMBDA e : ~checkCollision(r.player, e))]_vars

\* one tick has removed both asteroids, both bullets and both stars at the
\* edges, each pair in one scan (nothing was hit or collected)
C28_Witness ==
    /\ last.op = "gameLoop"
    /\ gameRunning
    /\ time = PurgeTime + 1
    /\ score = 0
    /\ asteroids = <<>> /\ bullets = <<>> /\ stars = <<>>
    /\ Len(engineTrail) = TRAIL_LIFE - 1

(***************************************************************************)
(* The end of the frame loop (SpecLive).                                   *)
(***************************************************************************)
\* C29: once the session is over a gameLoop callback that still fires returns
\* at entry: it changes no field of the object, counts no frame and requests
\* no callback; so, unless startGame() is called again, eventually no
\* gameLoop callback is scheduled.
C29_LoopStops ==
    /\ [][(last'.op = "gameLoop" /\ ~gameRunning) =>
            /\ Loops' = Loops - 1
            /\ UNCHANGED <<view, player, keys, mousePos, asteroids, bullets, stars,
                           explosions, particles, engineTrail, score, highScore,
                           storage, gameRunning, paused, lastShot, time,
                           gameInfoHidden, gameOverHidden>>]_vars
    /\ ~gameRunning ~> (Loops = 0 \/ gameRunning)

\* the session has ended in its third frame and the callback that frame
\* requested has fired: nothing is scheduled any more
C29_Witness ==
    /\ ~gameRunning
    /\ ~gameOverHidden
    /\ time = MaxTime
    /\ last.op = "gameLoop"
    /\ rafQueue = <<>>
    /\ frameQueue = <<>>

(***************************************************************************)
(* The cooldown across sessions (Spec).                                    *)
(***************************************************************************)
\* C30: startGame() resets the shot cooldown.  It leaves lastShot = 0, and a
\* shoot() right after it, in the running and unpaused session, would create
\* a bullet, however recent the last shot; nothing but shoot() and
\* startGame() changes lastShot; and a shoot() that finds lastShot = 0 in a
\* running, unpaused session creates a bullet.
C30_StartResetsCooldown ==
    [][/\ last'.op = "startGame" =>
            /\ lastShot' = 0
            /\ (gameRunning' /\ ~paused') =>
                   shoot(G', now').bullets = Append(bullets', createBullet(G'))
       /\ last'.op \notin {"startGame", "shoot", "constructor"} => lastShot' = lastShot
       /\ (last'.op = "shoot" /\ gameRunning /\ ~paused /\ lastShot = 0) =>
            /\ bullets' = Append(bullets, createBullet(G))
            /\ lastShot' = now]_vars

\* the first shot of a session started again (startGame() has been called
\* twice, each call ran one tick and requested one callback, and no frame has
\* run since) has created a bullet, with the clock where it was at
\* construction: any shot of the session before was made in this same
\* millisecond
C30_Witness ==
    /\ last.op = "shoot"
    /\ gameRunning /\ ~paused
    /\ time = 2
    /\ Loops = 2
    /\ now = ClockStart
    /\ lastShot = now
    /\ bullets = <<createBullet(G)>>

(***************************************************************************)
(* The engine trail (SpecTrail).                                           *)
(***************************************************************************)
\* C31: each unpaused running tick adds exactly one particle to the engine
\* trail, of life 20, at the player's engine (under the middle of the player,
\* within 2 pixels of it sideways), and ages the trail once; no other step
\* changes the trail; and the trail never holds more than 20 particles, not
\* within a tick either, through pauses, game-overs and restarts.
C31_OneTrailParticlePerTick ==
    [][/\ Ticks => \A g \in {TickStart} :
            LET old == SelectSeq(g.engineTrail, LAMBDA p : p.life > 1)
                new == engineTrail'[Len(engineTrail')]
            IN  /\ Len(g.engineTrail) + 1 <= TRAIL_LIFE
                /\ Len(engineTrail') = Len(old) + 1
                /\ \A i \in 1..Len(old) :
                       engineTrail'[i] = [old[i] EXCEPT !.y = @ + Px(2), !.life = @ - 1]
                /\ new.life = TRAIL_LIFE - 1
                /\ new.y = g.player.y + g.player.height + Px(2)
                /\ new.x >= g.player.x + Half(g.player.width) - Px(2)
                /\ new.x <= g.player.x + Half(g.player.width) + Px(2)
       /\ ~Ticks => engineTrail' = engineTrail
       /\ Len(engineTrail') <= TRAIL_LIFE]_vars

\* a session started again over a full trail, after a game over: the trail
\* holds its 19 particles, the newest under the player
C31_Witness ==
    /\ last.op = "startGame"
    /\ gameRunning
    /\ highScore = 0 /\ ~gameOverHidden
    /\ Len(engineTrail) = TRAIL_LIFE - 1
    /\ engineTrail[Len(engineTrail)].life = TRAIL_LIFE - 1
    /\ engineTrail[1].life = 1

(***************************************************************************)
(* Paused only while running (Spec).                                       *)
(***************************************************************************)
\* C32: paused implies gameRunning in every reachable state: the session is
\* never paused before the first start or after a game over.
C32_PausedOnlyRunning == paused => gameRunning

\* a key has been pressed on the game-over screen (the clock has not moved:
\* the last event is a keydown): the session is over and not paused
C32_Witness ==
    /\ last.op = "input"
    /\ ~gameRunning
    /\ ~gameOverHidden
    /\ ~paused
    /\ now = ClockStart
    /\ Loops = 0

(***************************************************************************)
(* Bullets and asteroids left apart (SpecCollisions).                      *)
(***************************************************************************)
\* C33: after the bullet-asteroid step of checkCollisions(), in any tick, a
\* tick that ends in game over included, no bullet left in bullets intersects
\* an asteroid left in asteroids; the tick ends with those bullets and
\* asteroids.
C33_NoBulletOnAsteroid ==
    [][Ticks => \A r \in {AfterBullets} :
        /\ \A i \in 1..Len(r.bullets) : \A j \in 1..Len(r.asteroids) :
               ~checkCollision(r.bullets[i], r.asteroids[j])
        /\ bullets' = r.bullets
        /\ asteroids' = r.asteroids
        /\ \A bl \in Range(bullets') : \A a \in Range(asteroids') :
               ~checkCollision(bl, a)]_vars

\* a tick in which a bullet destroyed an asteroid has left a bullet and an
\* asteroid
C33_Witness ==
    /\ last.op = "gameLoop"
    /\ bullets # <<>>
    /\ asteroids # <<>>
    /\ \E e \in 1..Len(explosions) : explosions[e].life = EXPLOSION_LIFE

(***************************************************************************)
(* SpaceGame (space-voyager/script.js).  Its state is held in probe while  *)
(* the DarkHorizon page stays as loaded: gameRunning, score, highScore and *)
(* time are the fields of that name, raf counts the gameLoop callbacks     *)
(* requested from requestAnimationFrame, timers the pending timeouts of    *)
(* showGameOver(), focus is document.activeElement and gameOverHidden the  *)
(* "hidden" class of the game-over screen.  What a tick's update() meets   *)
(* is drawn from Meets.                                                    *)
(***************************************************************************)
\* the ticks a session of SpaceGame is followed for
MaxTicks == 6

Meets == {"nothing", "bullet-asteroid", "star", "asteroid"}
Elements == {"restartBtn", "playAgainBtn", "body"}

\* updateHighScore(): the greater of score and highScore is kept
SpaceGame_updateHighScore(s) ==
    IF s.score > s.highScore THEN [s EXCEPT !.highScore = s.score] ELSE s

\* showGameOver(): the screen is shown and playAgainBtn.focus() is set to run
\* after 100 ms
SpaceGame_showGameOver(s) == [s EXCEPT !.gameOverHidden = FALSE, !.timers = @ + 1]

SpaceGame_gameOver(s) ==
    SpaceGame_showGameOver(SpaceGame_updateHighScore([s EXCEPT !.gameRunning = FALSE]))

\* checkCollisions() at the end of update(): a bullet on an asteroid scores 10,
\* an asteroid on the player ends the game and returns, a star on the player
\* scores 20
SpaceGame_checkCollisions(s, meet) ==
    CASE meet = "bullet-asteroid" -> [s EXCEPT !.score = @ + 10]
      [] meet = "asteroid" -> SpaceGame_gameOver(s)
      [] meet = "star" -> [s EXCEPT !.score = @ + 20]
      [] OTHER -> s

SpaceGame_gameLoop(s, meet) ==
    IF ~s.gameRunning THEN s
    ELSE [SpaceGame_checkCollisions([s EXCEPT !.time = @ + 1], meet) EXCEPT !.raf = @ + 1]

SpaceGame_startGame(s, meet) ==
    SpaceGame_gameLoop([s EXCEPT !.score = 0, !.gameRunning = TRUE,
                                 !.gameOverHidden = TRUE], meet)

SpaceGame_handleRestartFocus(s) ==
    IF s.gameRunning THEN [s EXCEPT !.gameRunning = FALSE] ELSE s

SpaceGame_handleRestartBlur(s, meet) ==
    IF ~s.gameRunning /\ s.score > 0
    THEN SpaceGame_gameLoop([s EXCEPT !.gameRunning = TRUE], meet)
    ELSE s

\* element.focus(), or the user moving the focus: the element that had the
\* focus gets "blur", then the new one gets "focus"; nothing happens when the
\* element has the focus already
SpaceGame_focus(s, el, meet) ==
    IF s.focus = el THEN s
    ELSE LET blurred == IF s.focus = "restartBtn"
                        THEN SpaceGame_handleRestartBlur(s, meet) ELSE s
             focused == IF el = "restartBtn"
                        THEN SpaceGame_handleRestartFocus(blurred) ELSE blurred
         IN  [focused EXCEPT !.focus = el]

\* new SpaceGame(): the constructor, and init() with restartBtn.focus()
SpaceGame_constructor ==
    SpaceGame_focus([gameRunning |-> FALSE, score |-> 0, highScore |-> 0, time |-> 0,
                     raf |-> 0, timers |-> 0, focus |-> "body",
                     gameOverHidden |-> TRUE], "restartBtn", "nothing")

\* the DarkHorizon page takes no part in a step of SpaceGame
DarkHorizonUntouched ==
    UNCHANGED <<inner, view, player, keys, mousePos, asteroidSpeed, asteroids, bullets,
                stars, explosions, particles, engineTrail, score, highScore, storage,
                gameRunning, paused, lastShot, time, now, rafQueue, frameQueue,
                resizeScheduled, gameInfoHidden, gameOverHidden>>

\* a step of SpaceGame: the handler op leaves the game as s
SpaceGameStep(op, s) ==
    /\ probe' = s
    /\ last' = [op |-> op, d |-> NoDraws]
    /\ DarkHorizonUntouched

\* the session is followed while it can still tick and request frames
SpaceGameBounded == probe.time < MaxTicks /\ probe.raf < MaxLoops

\* a click on restartBtn gives it the focus and runs handleRestartClick; the
\* tick that startGame() runs meets nothing, the lists having been emptied
SpaceGameRestartClick ==
    /\ SpaceGameBounded
    /\ SpaceGameStep("handleRestartClick",
            SpaceGame_focus(
                SpaceGame_startGame(SpaceGame_focus(probe, "restartBtn", "nothing"),
                                    "nothing"),
                "restartBtn", "nothing"))

\* Enter or Space on restartBtn, which has the focus
SpaceGameRestartKeyDown ==
    /\ SpaceGameBounded
    /\ probe.focus = "restartBtn"
    /\ SpaceGameStep("handleRestartKeyDown",
            SpaceGame_focus(SpaceGame_startGame(probe, "nothing"), "restartBtn",
                            "nothing"))

\* a click on playAgainBtn, shown with the game-over screen, gives it the
\* focus and runs handlePlayAgainClick; restartBtn.focus() then runs the
\* focus handler of restartBtn
SpaceGamePlayAgainClick ==
    /\ SpaceGameBounded
    /\ ~probe.gameOverHidden
    /\ \E meet \in Meets :
        SpaceGameStep("handlePlayAgainClick",
            SpaceGame_focus(
                SpaceGame_startGame(SpaceGame_focus(probe, "playAgainBtn", meet),
                                    "nothing"),
                "restartBtn", "nothing"))

\* Enter or Space on playAgainBtn, which has the focus
SpaceGamePlayAgainKeyDown ==
    /\ SpaceGameBounded
    /\ ~probe.gameOverHidden
    /\ probe.focus = "playAgainBtn"
    /\ SpaceGameStep("handlePlayAgainKeyDown",
            SpaceGame_focus(SpaceGame_startGame(probe, "nothing"), "restartBtn",
                            "nothing"))

\* the timeout of showGameOver() runs playAgainBtn.focus()
SpaceGameGameOverTimeout ==
    /\ probe.timers > 0
    /\ probe.time < MaxTicks
    /\ \E meet \in Meets :
        SpaceGameStep("showGameOver",
            SpaceGame_focus([probe EXCEPT !.timers = @ - 1], "playAgainBtn", meet))

\* the user moves the focus (Tab, or a pointer press) to another element
SpaceGameFocusMoves ==
    /\ probe.time < MaxTicks
    /\ \E el \in Elements, meet \in Meets :
        /\ el # probe.focus
        /\ el = "playAgainBtn" => ~probe.gameOverHidden
        /\ SpaceGameStep("focus", SpaceGame_focus(probe, el, meet))

\* a key goes down on the page: handleKeyDown returns at once when a button
\* has the focus, and else holds the key and may shoot; pointer moves, canvas
\* clicks and resizes: none of them writes gameRunning, score or the focus
SpaceGameOtherInput ==
    /\ last.op # "input"
    /\ SpaceGameStep("input", probe)

\* a requested gameLoop callback runs
SpaceGameAnimationFrame ==
    /\ probe.raf > 0
    /\ probe.time < MaxTicks
    /\ \E meet \in Meets :
        SpaceGameStep("gameLoop",
            SpaceGame_gameLoop([probe EXCEPT !.raf = @ - 1], meet))

InitVoyager ==
    /\ Construct(PlayWindow, WorkingStore(None), SPEEDS_ASTEROID_DESKTOP)
    /\ probe = SpaceGame_constructor

NextVoyager ==
    \/ SpaceGameRestartClick
    \/ SpaceGameRestartKeyDown
    \/ SpaceGamePlayAgainClick
    \/ SpaceGamePlayAgainKeyDown
    \/ SpaceGameGameOverTimeout
    \/ SpaceGameFocusMoves
    \/ SpaceGameOtherInput
    \/ SpaceGameAnimationFrame

SpecVoyager == InitVoyager /\ [][NextVoyager]_vars

\* C34: once gameOver() has set gameRunning to false (the game-over screen is
\* shown), gameRunning becomes true again and the frame loop goes on only
\* through startGame(), which the click and key handlers of the two buttons
\* call; no other handler resumes the ended session.
C34_OnlyStartGameResumes ==
    [][(~probe.gameRunning /\ ~probe.gameOverHidden)
        => \/ last'.op \in {"handleRestartClick", "handleRestartKeyDown",
                            "handlePlayAgainClick", "handlePlayAgainKeyDown"}
           \/ /\ ~probe'.gameRunning
              /\ probe'.time = probe.time]_vars

(***************************************************************************)
(* The legacy variant with global state (unnamed/part_003).  Its globals   *)
(* are held in probe while the DarkHorizon page stays as loaded: lengths   *)
(* are tenths of a pixel, clock is Date.now() in milliseconds, intervals   *)
(* holds the timers that setInterval() has started and clearInterval() has *)
(* not stopped, saved is the item 'spaceVoyagerGameHistory' of             *)
(* localStorage.  The game runs on a desktop (isMobile false).             *)
(***************************************************************************)
\* gameContainer.clientWidth / clientHeight
Container == [width |-> Px(200), height |-> Px(200)]
\* the start clicks and the gameLoop callbacks a page is followed for
MaxMissions == 2
MaxLegacyTicks == 5

Legacy_checkRectCollision(rect1, rect2) ==
    /\ rect1.left < rect2.right
    /\ rect1.right > rect2.left
    /\ rect1.top < rect2.bottom
    /\ rect1.bottom > rect2.top

\* the rectangles that checkCollisions() compares
Legacy_spaceshipRect(ship) ==
    [left |-> ship.x + Px(10), top |-> ship.y + Px(10),
     right |-> ship.x + ship.width - Px(10), bottom |-> ship.y + ship.height - Px(10)]
Legacy_asteroidRect(a) ==
    [left |-> a.x + Px(5), top |-> a.y + Px(5),
     right |-> a.x + a.size - Px(5), bottom |-> a.y + a.size - Px(5)]
Legacy_bulletRect(b) ==
    [left |-> b.x, top |-> b.y, right |-> b.x + b.size, bottom |-> b.y + b.size]

Legacy_resetSpaceshipPosition(s) ==
    [s EXCEPT !.spaceship.x = Half(Container.width - s.spaceship.width),
              !.spaceship.y = Container.height - s.spaceship.height - Px(20)]

Legacy_clearGameObjects(s) == [s EXCEPT !.asteroids = <<>>, !.stars = <<>>]

\* JSON.stringify of one game of the history: date, score and duration
Legacy_stringifyGame(gameData) ==
    StringOf(gameData.date) \o <<",">> \o StringOf(gameData.score) \o <<",">>
        \o StringOf(gameData.duration)
\* JSON.stringify(gameHistory): the games in the order of the array
Legacy_stringify(history) == [i \in 1..Len(history) |-> Legacy_stringifyGame(history[i])]

\* A faulty startGame(), for comparison: it does not return when the game is
\* running.
Legacy_startGameRunning(s) ==
    LET r == Legacy_resetSpaceshipPosition(Legacy_clearGameObjects(
                 [s EXCEPT !.gameRunning = TRUE, !.score = 0,
                           !.gameStartTime = s.clock, !.gameOverShown = FALSE]))
        n == r.nextId
    IN  [r EXCEPT !.asteroidInterval = n, !.starInterval = n + 1,
                  !.gameLoopInterval = n + 2, !.engineParticlesInterval = n + 3,
                  !.intervals = @ \cup {[id |-> n, fn |-> "createAsteroid"],
                                        [id |-> n + 1, fn |-> "createStar"],
                                        [id |-> n + 2, fn |-> "gameLoop"],
                                        [id |-> n + 3, fn |-> "createEngineParticle"]},
                  !.nextId = n + 4]

Legacy_startGame(s) ==
    IF s.gameRunning THEN s
    ELSE LET r == Legacy_resetSpaceshipPosition(Legacy_clearGameObjects(
                      [s EXCEPT !.gameRunning = TRUE, !.score = 0,
                                !.gameStartTime = s.clock, !.gameOverShown = FALSE]))
             n == r.nextId
         IN  [r EXCEPT !.asteroidInterval = n, !.starInterval = n + 1,
                       !.gameLoopInterval = n + 2, !.engineParticlesInterval = n + 3,
                       !.intervals = @ \cup {[id |-> n, fn |-> "createAsteroid"],
                                             [id |-> n + 1, fn |-> "createStar"],
                                             [id |-> n + 2, fn |-> "gameLoop"],
                                             [id |-> n + 3, fn |-> "createEngineParticle"]},
                       !.nextId = n + 4]

\* A faulty gameOver(), for comparison: the finished game is put at the end
\* of the history and the last games are kept.
Legacy_gameOverPushes(s) ==
    LET gameData == [date |-> s.clock, score |-> s.score,
                     duration |-> (s.clock - s.gameStartTime) \div 1000]
        pushed == Append(s.gameHistory, gameData)
        kept == IF Len(pushed) > 10 THEN SubSeq(pushed, Len(pushed) - 9, Len(pushed))
                ELSE pushed
    IN  [s EXCEPT !.gameRunning = FALSE, !.gameOverShown = TRUE,
                  !.gameHistory = kept, !.saved = Some(Legacy_stringify(kept)),
                  !.highScore = Max(@, s.score), !.intervals = {}]

Legacy_gameOver(s) ==
    LET gameData == [date |-> s.clock, score |-> s.score,
                     duration |-> (s.clock - s.gameStartTime) \div 1000]
        unshifted == <<gameData>> \o s.gameHistory
        kept == IF Len(unshifted) > s.maxGameHistorySize
                THEN SubSeq(unshifted, 1, s.maxGameHistorySize) ELSE unshifted
        held == {s.asteroidInterval, s.starInterval, s.gameLoopInterval,
                 s.engineParticlesInterval}
    IN  [s EXCEPT !.gameRunning = FALSE, !.gameOverShown = TRUE,
                  !.gameHistory = kept, !.saved = Some(Legacy_stringify(kept)),
                  !.highScore = IF s.score > @ THEN s.score ELSE @,
                  !.intervals = {t \in @ : t.id \notin held}]

Legacy_moveSpaceship(s) ==
    LET ship == s.spaceship
        up == IF "up" \in ship.moves THEN Max(0, ship.y - ship.speed) ELSE ship.y
        down == IF "down" \in ship.moves
                THEN Min(Container.height - ship.height, up + ship.speed) ELSE up
        side == IF "left" \in ship.moves THEN Max(0, ship.x - ship.speed)
                ELSE IF "right" \in ship.moves
                THEN Min(Container.width - ship.width, ship.x + ship.speed)
                ELSE ship.x
    IN  [s EXCEPT !.spaceship.x = side, !.spaceship.y = down]

\* moveGameObjects(): each loop moves the elements of one array and splices
\* out those that have left; wobble[i] is Math.sin(Date.now() / 500 + i) * 0.5.
\* The age of a particle counts the additions of 0.1: the tenth sum is
\* 0.9999999999999999 in binary floating point, the eleventh is the first
\* that is >= 1.
Legacy_moveGameObjects(s, wobble) ==
    [s EXCEPT
        !.asteroids = SelectSeq([i \in 1..Len(s.asteroids) |->
                                    [s.asteroids[i] EXCEPT !.y = @ + s.asteroids[i].speed]],
                                LAMBDA a : ~(a.y > Container.height)),
        !.stars = SelectSeq([i \in 1..Len(s.stars) |->
                                [s.stars[i] EXCEPT !.y = @ + s.stars[i].speed,
                                                   !.x = @ + wobble[i]]],
                            LAMBDA st : ~(st.y > Container.height)),
        !.spaceship.engineParticles =
            SelectSeq([i \in 1..Len(s.spaceship.engineParticles) |->
                          [s.spaceship.engineParticles[i] EXCEPT !.age = @ + 1]],
                      LAMBDA p : ~(p.age >= 11)),
        !.bullets = SelectSeq([i \in 1..Len(s.bullets) |->
                                  [s.bullets[i] EXCEPT !.y = @ - s.bullets[i].speed]],
                              LAMBDA b : ~(b.y < -Px(20)))]

\* checkCollisions(): the inner loop, the last bullet that is on the asteroid
RECURSIVE Legacy_bulletOn(_, _, _)
Legacy_bulletOn(list, asteroidRect, j) ==
    IF j < 1 THEN 0
    ELSE IF Legacy_checkRectCollision(Legacy_bulletRect(list[j]), asteroidRect) THEN j
    ELSE Legacy_bulletOn(list, asteroidRect, j - 1)

\* checkCollisions(): the loop over the asteroids, last to first; each is
\* tested against the spaceship, which ends the game and returns, and then
\* against the bullets.  The answer tells whether the function has returned.
RECURSIVE Legacy_asteroidScan(_, _)
Legacy_asteroidScan(s, i) ==
    IF i < 1 THEN [s |-> s, returned |-> FALSE]
    ELSE LET asteroidRect == Legacy_asteroidRect(s.asteroids[i])
             j == Legacy_bulletOn(s.bullets, asteroidRect, Len(s.bullets))
         IN  IF Legacy_checkRectCollision(Legacy_spaceshipRect(s.spaceship), asteroidRect)
             THEN [s |-> Legacy_gameOver(s), returned |-> TRUE]
             ELSE IF j > 0
             THEN Legacy_asteroidScan([s EXCEPT !.asteroids = Splice(@, i),
                                                !.bullets = Splice(@, j),
                                                !.score = @ + 20], i - 1)
             ELSE Legacy_asteroidScan(s, i - 1)

\* checkCollisions(): the loop over the stars; a star on the spaceship is
\* collected for 10 points
Legacy_collectStars(s) ==
    LET on(st) == Legacy_checkRectCollision(Legacy_spaceshipRect(s.spaceship),
                      [left |-> st.x, top |-> st.y, right |-> st.x + st.size,
                       bottom |-> st.y + st.size])
    IN  [s EXCEPT !.score = @ + 10 * Cardinality({i \in 1..Len(s.stars) : on(s.stars[i])}),
                  !.stars = SelectSeq(@, LAMBDA st : ~on(st))]

Legacy_checkCollisions(s) ==
    LET r == Legacy_asteroidScan(s, Len(s.asteroids))
    IN  IF r.returned THEN r.s ELSE Legacy_collectStars(r.s)

Legacy_gameLoop(s, wobble) ==
    IF ~s.gameRunning THEN s
    ELSE Legacy_checkCollisions(Legacy_moveGameObjects(Legacy_moveSpaceship(s), wobble))

\* the draws d are the values of Math.random(), in thousandths
Legacy_createAsteroid(s, d) ==
    IF ~s.gameRunning THEN s
    ELSE LET size == Frac(d.size, 50) + 30
         IN  [s EXCEPT !.asteroids = Append(@,
                 [x |-> Px(Frac(d.x, (Container.width \div 10) - size)), y |-> -Px(size),
                  size |-> Px(size), speed |-> Px(Frac(d.speed, 4) + 2)])]

Legacy_createStar(s, d) ==
    IF ~s.gameRunning THEN s
    ELSE [s EXCEPT !.stars = Append(@,
             [x |-> Px(Frac(d.x, (Container.width \div 10) - 30)), y |-> -Px(30),
              size |-> Px(30), speed |-> Px(Frac(d.speed, 2) + 2)])]

\* the particle is kept by its age; its place and speed are only drawn
Legacy_createEngineParticle(s) ==
    IF ~s.gameRunning THEN s
    ELSE [s EXCEPT !.spaceship.engineParticles = Append(@, [age |-> 0])]

Legacy_createBullet(s) ==
    IF Len(s.bullets) >= 5 THEN s
    ELSE [s EXCEPT !.bullets = Append(@,
             [x |-> s.spaceship.x + Half(s.spaceship.width) - Half(Px(8)),
              y |-> s.spaceship.y - Px(8), size |-> Px(8), speed |-> Px(10)])]

\* the keys of the keydown and keyup listeners
Legacy_moveOf(key) ==
    CASE key \in {"ArrowUp", "w"} -> {"up"}
      [] key \in {"ArrowDown", "s"} -> {"down"}
      [] key \in {"ArrowLeft", "a"} -> {"left"}
      [] key \in {"ArrowRight", "d"} -> {"right"}
      [] OTHER -> {}

Legacy_keydown(s, key) ==
    IF ~s.gameRunning THEN s
    ELSE IF key = " " THEN Legacy_createBullet(s)
    ELSE [s EXCEPT !.spaceship.moves = @ \cup Legacy_moveOf(key)]

Legacy_keyup(s, key) == [s EXCEPT !.spaceship.moves = @ \ Legacy_moveOf(key)]

Legacy_mousemove(s, mouse) ==
    IF ~s.gameRunning THEN s
    ELSE [s EXCEPT
            !.spaceship.x = Max(0, Min(mouse.x - Half(s.spaceship.width),
                                       Container.width - s.spaceship.width)),
            !.spaceship.y = Max(0, Min(mouse.y - Half(s.spaceship.height),
                                       Container.height - s.spaceship.height))]

Legacy_click(s) == IF ~s.gameRunning THEN s ELSE Legacy_createBullet(s)

Legacy_handleResize(s) == IF ~s.gameRunning THEN Legacy_resetSpaceshipPosition(s) ELSE s

\* the globals as declared, then init() with the history read from
\* localStorage; the games of earlier pages are dated before this page
Legacy_init(history) ==
    Legacy_resetSpaceshipPosition(
        [gameRunning |-> FALSE, score |-> 0, highScore |-> 0, gameStartTime |-> 0,
         clock |-> 0, gameOverShown |-> FALSE,
         asteroidInterval |-> 0, starInterval |-> 0, gameLoopInterval |-> 0,
         engineParticlesInterval |-> 0, intervals |-> {}, nextId |-> 1,
         gameHistory |-> history, maxGameHistorySize |-> 10,
         saved |-> IF history = <<>> THEN None ELSE Some(Legacy_stringify(history)),
         spaceship |-> [x |-> 0, y |-> 0, width |-> Px(60), height |-> Px(60),
                        speed |-> Px(8), moves |-> {}, engineParticles |-> <<>>],
         asteroids |-> <<>>, stars |-> <<>>, bullets |-> <<>>])

\* a history of n earlier games, newest first
StoredHistory(n) == [i \in 1..n |-> [date |-> -i, score |-> 10 * i, duration |-> i]]

\* the histories that init() finds: none, one short of the limit, at the
\* limit, and beyond it (written by another build of the page)
StoredHistories == {StoredHistory(n) : n \in {0, 9, 10, 12}}

\* the draws of createAsteroid(): 30 pixels wide, 17 or 85 pixels from the
\* left, 2 or 5 pixels a tick
LegacyAsteroidDraws ==
    {[size |-> 0, x |-> 100, speed |-> 0], [size |-> 0, x |-> 500, speed |-> 999]}
\* the draws of createStar(): 85 pixels from the left, 3 pixels a tick
LegacyStarDraws == [x : {500}, speed : {999}]
\* the wobble of a star in a tick, in tenths of a pixel
Wobbles == {0, 5}
\* where the pointer goes: the top edge, over the left and over the middle
LegacyPointers == {[x |-> Px(30), y |-> 0], [x |-> Px(100), y |-> 0]}

\* a step of the legacy page: the function op leaves the globals as s
LegacyStep(op, s) ==
    /\ probe' = s
    /\ last' = [op |-> op, d |-> NoDraws]
    /\ DarkHorizonUntouched

\* a click on the start button
LegacyStartClick ==
    /\ probe.nextId < 4 * MaxMissions
    /\ LegacyStep("startGame", Legacy_startGame(probe))

LegacyKeyDown(Keys) ==
    /\ probe.gameRunning
    /\ \E key \in Keys :
        /\ key = " " => Len(probe.bullets) < MaxBullets
        /\ LegacyStep("keydown", Legacy_keydown(probe, key))

LegacyKeyUp(Keys) ==
    /\ probe.spaceship.moves # {}
    /\ \E key \in Keys : LegacyStep("keyup", Legacy_keyup(probe, key))

LegacyMouseMove(Pointers) ==
    /\ probe.gameRunning
    /\ \E mouse \in Pointers : LegacyStep("mousemove", Legacy_mousemove(probe, mouse))

\* a click in the game container
LegacyClick ==
    /\ probe.gameRunning
    /\ Len(probe.bullets) < MaxBullets
    /\ LegacyStep("click", Legacy_click(probe))

LegacyResize ==
    /\ ~probe.gameRunning
    /\ last.op # "handleResize"
    /\ LegacyStep("handleResize", Legacy_handleResize(probe))

\* a timer of setInterval() calls its function
LegacyAsteroidTimer(Draws, most) ==
    /\ \E t \in probe.intervals : t.fn = "createAsteroid"
    /\ Len(probe.asteroids) < most
    /\ \E d \in Draws :
        LegacyStep("createAsteroid", Legacy_createAsteroid(probe, d))

LegacyStarTimer ==
    /\ \E t \in probe.intervals : t.fn = "createStar"
    /\ Len(probe.stars) < MaxStars
    /\ \E d \in LegacyStarDraws : LegacyStep("createStar", Legacy_createStar(probe, d))

LegacyEngineTimer ==
    /\ \E t \in probe.intervals : t.fn = "createEngineParticle"
    /\ Len(probe.spaceship.engineParticles) < MaxStars
    /\ LegacyStep("createEngineParticle", Legacy_createEngineParticle(probe))

\* the timer of gameLoop, 20 ms after the call before
LegacyGameLoopTimer ==
    /\ \E t \in probe.intervals : t.fn = "gameLoop"
    /\ probe.clock < 20 * MaxLegacyTicks
    /\ \E wobble \in [1..Len(probe.stars) -> Wobbles] :
        LegacyStep("gameLoop", Legacy_gameLoop([probe EXCEPT !.clock = @ + 20], wobble))

\* A page from its load: start clicks, shots, the pointer over the middle of
\* the top edge, the four timers; an asteroid is 30 pixels wide, 85 pixels
\* from the left and falls 5 pixels a tick.
InitLegacy ==
    /\ Construct(PlayWindow, WorkingStore(None), SPEEDS_ASTEROID_DESKTOP)
    /\ probe = Legacy_init(<<>>)

NextLegacy ==
    \/ LegacyStartClick
    \/ LegacyMouseMove({[x |-> Px(100), y |-> 0]})
    \/ LegacyClick
    \/ LegacyResize
    \/ LegacyAsteroidTimer([size : {0}, x : {500}, speed : {999}], 1)
    \/ LegacyStarTimer
    \/ LegacyEngineTimer
    \/ LegacyGameLoopTimer

SpecLegacy == InitLegacy /\ [][NextLegacy]_vars

\* The same page without shots and stars: the down key held and released.
NextLegacyTimers ==
    \/ LegacyStartClick
    \/ LegacyMouseMove({[x |-> Px(100), y |-> 0]})
    \/ LegacyKeyDown({"ArrowDown"})
    \/ LegacyKeyUp({"ArrowDown"})
    \/ LegacyResize
    \/ LegacyAsteroidTimer([size : {0}, x : {500}, speed : {999}], 1)
    \/ LegacyEngineTimer
    \/ LegacyGameLoopTimer

SpecLegacyTimers == InitLegacy /\ [][NextLegacyTimers]_vars

\* Pages with a stored history, followed to their game overs: the pointer
\* over the middle of the top edge, shots.
InitLegacyHistory ==
    /\ Construct(PlayWindow, WorkingStore(None), SPEEDS_ASTEROID_DESKTOP)
    /\ \E history \in StoredHistories : probe = Legacy_init(history)

NextLegacyHistory ==
    \/ LegacyStartClick
    \/ LegacyMouseMove({[x |-> Px(100), y |-> 0]})
    \/ LegacyClick
    \/ LegacyAsteroidTimer([size : {0}, x : {500}, speed : {999}], 1)
    \/ LegacyGameLoopTimer

SpecLegacyHistory == InitLegacyHistory /\ [][NextLegacyHistory]_vars

\* A page without stored history: the pointer over the left and over the
\* middle of the top edge, shots, a slow asteroid on the left and a fast one
\* in the middle.
InitLegacyCollisions ==
    /\ Construct(PlayWindow, WorkingStore(None), SPEEDS_ASTEROID_DESKTOP)
    /\ probe = Legacy_init(<<>>)

NextLegacyCollisions ==
    \/ LegacyStartClick
    \/ LegacyKeyDown({" "})
    \/ LegacyMouseMove(LegacyPointers)
    \/ LegacyAsteroidTimer(LegacyAsteroidDraws, MaxAsteroids)
    \/ LegacyGameLoopTimer

SpecLegacyCollisions == InitLegacyCollisions /\ [][NextLegacyCollisions]_vars

\* C35: startGame() after a game over resets the score to 0 and clears every
\* entity collection: asteroids, stars, bullets and engine particles are all
\* empty when it returns, however many were alive at the game over.
C35_RestartClearsAll ==
    [][(last'.op = "startGame" /\ ~probe.gameRunning /\ probe.gameOverShown)
        => /\ probe'.score = 0
           /\ probe'.asteroids = <<>>
           /\ probe'.stars = <<>>
           /\ probe'.bullets = <<>>
           /\ probe'.spaceship.engineParticles = <<>>]_vars

\* the globals at the call of checkCollisions() in the gameLoop() now due
\* (the wobble moves stars only)
LegacyBeforeCollisions ==
    Legacy_moveGameObjects(Legacy_moveSpaceship([probe EXCEPT !.clock = @ + 20]),
                           [i \in 1..Len(probe.stars) |-> 0])

\* a step in which gameLoop() runs its tick
LegacyTicks == last'.op = "gameLoop" /\ probe.gameRunning

\* C36: in checkCollisions() the bullet-asteroid resolution of the whole tick
\* comes before any player-asteroid test: after a tick, one that ends in game
\* over included, no bullet left is on an asteroid left (every hit was scored
\* and removed), and a tick ends the game only by an asteroid that no bullet
\* was on at the call.
C36_BulletsBeforeSpaceship ==
    [][LegacyTicks => \A b \in {LegacyBeforeCollisions} :
        /\ \A i \in 1..Len(probe'.asteroids) : \A j \in 1..Len(probe'.bullets) :
               ~Legacy_checkRectCollision(Legacy_bulletRect(probe'.bullets[j]),
                                          Legacy_asteroidRect(probe'.asteroids[i]))
        /\ ~probe'.gameRunning =>
               \E i \in 1..Len(b.asteroids) :
                   /\ Legacy_checkRectCollision(Legacy_spaceshipRect(b.spaceship),
                                                Legacy_asteroidRect(b.asteroids[i]))
                   /\ \A j \in 1..Len(b.bullets) :
                          ~Legacy_checkRectCollision(Legacy_bulletRect(b.bullets[j]),
                                                     Legacy_asteroidRect(b.asteroids[i]))]_vars

\* the functions that startGame() gives to setInterval()
LegacyTimed == {"createAsteroid", "createStar", "gameLoop", "createEngineParticle"}

====
